---- MODULE Spec2Model ----
(***************************************************************************)
(* A model of the domarkx core: the tool-call dispatcher (tool.py), the    *)
(* command-tag parser (parser.py), the apply_diff patch algorithm          *)
(* (apply_diff.py) and the chat-document parser with its inclusion         *)
(* resolution and append_message writer (chat_doc_parser.py).              *)
(*                                                                         *)
(* Each subsystem has its own variables and its own specification; a       *)
(* specification leaves the variables of the other subsystems at their     *)
(* idle values.                                                            *)
(***************************************************************************)
EXTENDS Integers, Sequences, FiniteSets, TLC

VARIABLES
    \* ---- dispatcher (tool.py) ----
    REGISTERED_TOOLS,   \* the process-wide registry: tool name -> handler
    dispatch,           \* what the last execute_tool_call did
    handlerRuns,        \* how many times a handler body has been entered
    \* ---- command-tag parser (parser.py) ----
    message,            \* the text handed to parse_tool_calls, as tokens
    tool_calls,         \* what parse_tool_calls produced for it
    \* ---- apply_diff (apply_diff.py) ----
    request,            \* the edit blocks the diff text was written from
    disk,               \* the content of the target file on disk
    original_lines,     \* the lines read at the start of the call
    diff_lines,         \* the diff text, split in lines
    current_line_in_diff,
    operations,         \* located edit blocks, in diff order
    current_lines,      \* the working copy the blocks are applied to
    pcD,                \* position of the call
    diffError,          \* which ValueError the call raised, if any
    writes,             \* how many times the file has been written
    \* ---- chat document (chat_doc_parser.py) ----
    docText,            \* the document text, as lines
    document,           \* the ParsedDocument of the last parse
    appended,           \* the message appended by append_message
    pcDoc,
    action,             \* what the last do_roo_code_action did
    \* ---- inclusion resolution (chat_doc_parser.py) ----
    fs,                 \* path -> file content (lines)
    frames,             \* the call stack of _resolve_inclusions / parse
    processing_stack,   \* the in-flight path set, shared by reference
    errors,             \* number of entries appended to document.errors
    cycleHits,          \* how often the in-flight check of line 114 fired
    visited,            \* the configurations this parse has been in
    revisits,           \* TRUE once a configuration has occurred twice
    resolved,           \* the text the top-level resolution returned
    pcI,
    \* ---- path map (agent_fs_map.py) and write_to_file ----
    fs_map,             \* the AGENT_FS_MAP entries, in the order of the text
    pathCall,           \* the last call of the path functions and its result
    realFiles           \* real path -> content written by write_to_file

dispVars  == <<REGISTERED_TOOLS, dispatch, handlerRuns>>
tagVars   == <<message, tool_calls>>
patchVars == <<request, disk, original_lines, diff_lines, current_line_in_diff,
               operations, current_lines, pcD, diffError, writes>>
docVars   == <<docText, document, appended, pcDoc, action>>
inclVars  == <<fs, frames, processing_stack, errors, cycleHits, visited, revisits,
               resolved, pcI>>
mapVars   == <<fs_map, pathCall, realFiles>>
vars      == <<dispVars, tagVars, patchVars, docVars, inclVars, mapVars>>

(***************************************************************************)
(* Generic helpers on sequences.                                           *)
(***************************************************************************)
Range(s) == {s[i] : i \in 1..Len(s)}

Min2(a, b) == IF a <= b THEN a ELSE b
Max2(a, b) == IF a >= b THEN a ELSE b

\* Python's s[lo:hi] on 0-based indices with 0 <= lo, clipped at the end
Slice(s, lo, hi) ==
    LET h == Min2(hi, Len(s))
    IN  IF lo >= h THEN <<>> ELSE SubSeq(s, lo + 1, h)

SeqsUpTo(S, n) == UNION {[1..k -> S] : k \in 0..n}

(***************************************************************************)
(* Idle values: what a subsystem's variables hold under the specification  *)
(* of another subsystem.                                                   *)
(***************************************************************************)
DispIdle ==
    /\ REGISTERED_TOOLS = <<>>
    /\ dispatch = [kind |-> "none"]
    /\ handlerRuns = 0

TagIdle ==
    /\ message = <<>>
    /\ tool_calls = [status |-> "none", calls |-> <<>>]

PatchIdle ==
    /\ request = [blocks |-> <<>>, omit |-> "none", at |-> 0]
    /\ disk = <<>>
    /\ original_lines = <<>>
    /\ diff_lines = <<>>
    /\ current_line_in_diff = 0
    /\ operations = <<>>
    /\ current_lines = <<>>
    /\ pcD = "idle"
    /\ diffError = "none"
    /\ writes = 0

\* dataclass Message before any field is set; dataclass ParsedDocument likewise
NoMessage == [speaker |-> <<>>, content |-> <<>>, metadata |-> <<>>]

\* do_roo_code_action has not been called
NoAction ==
    [status |-> "idle", message_index |-> 0, exc |-> "none", executed |-> <<>>,
     responses |-> <<>>, written |-> 0]

NoSetupCode == [present |-> FALSE, language |-> <<>>]

EmptyDocument ==
    [config |-> [session_config |-> <<>>, session_setup_code |-> NoSetupCode],
     conversation |-> <<>>,
     errors |-> 0,
     raised |-> "none"]

DocIdle ==
    /\ docText = <<>>
    /\ document = EmptyDocument
    /\ appended = NoMessage
    /\ pcDoc = "idle"
    /\ action = NoAction

InclIdle ==
    /\ fs = <<>>
    /\ frames = <<>>
    /\ processing_stack = {}
    /\ errors = 0
    /\ cycleHits = 0
    /\ visited = {}
    /\ revisits = FALSE
    /\ resolved = <<>>
    /\ pcI = "idle"

\* no path function has been called
NoPathCall == [op |-> "none"]

MapIdle ==
    /\ fs_map = <<>>
    /\ pathCall = NoPathCall
    /\ realFiles = <<>>

(***************************************************************************)
(* DISPATCHER  (src/domarkx/tool_call/roo_code/tool.py)                    *)
(***************************************************************************)
ToolNames  == {"t", "u"}
HandlerIds == {"h1", "h2"}
ParamNames == {"p", "q"}
ParamStrs  == {"true", "TRUE", "false", "False", "1", ""}

\* what a handler body can do when it is entered: return a value, or raise
\* an argument-shape error, a domain error, or another unexpected failure
HandlerOutcomes == {"value", "TypeError", "DomainError", "OtherError"}

\* bound: handler invocations counted
MaxRuns == 2

\* str.lower() on the parameter strings of the model
Lower(s) == IF s = "TRUE" THEN "true" ELSE IF s = "False" THEN "false" ELSE s

ProcessedParamsExact(parameters) ==
    [n \in DOMAIN parameters |->
        IF parameters[n] = "true" THEN <<"bool", "True">>
        ELSE IF parameters[n] = "false" THEN <<"bool", "False">>
        ELSE <<"str", parameters[n]>>]

\* tool.py 61-71: 'true'/'false' in any letter case become booleans
ProcessedParams(parameters) ==
    [n \in DOMAIN parameters |->
        IF Lower(parameters[n]) = "true" THEN <<"bool", "True">>
        ELSE IF Lower(parameters[n]) = "false" THEN <<"bool", "False">>
        ELSE <<"str", parameters[n]>>]

\* tool.py 18-30: REGISTERED_TOOLS[name] = func
RegisterBinding(reg, name, func) ==
    [n \in (DOMAIN reg) \cup {name} |-> IF n = name THEN func ELSE reg[n]]

register_tool(name, func) ==
    /\ REGISTERED_TOOLS' = RegisterBinding(REGISTERED_TOOLS, name, func)
    /\ UNCHANGED <<dispatch, handlerRuns>>

\* tool.py 53-56: the name is not in the registry
MissingHandlerReturnsFailure(tool_name) ==
    [kind |-> "return", tool_name |-> tool_name, ok |-> FALSE,
     diag |-> "not_found", trace |-> FALSE, template |-> FALSE,
     outcome |-> "none", ran |-> FALSE, args |-> <<>>]

MissingHandlerResult(tool_name) ==
    [kind |-> "raise", exc |-> "ValueError", tool_name |-> tool_name,
     diag |-> "not_found", ran |-> FALSE]

\* tool.py 73-103: the handler is entered; its result or its failure is
\* turned into the (tool_name, result string) pair.  trace: the result
\* embeds the rendered failure trace; outcome: what the handler did
HandlerFailurePropagates(tool_name, args, outcome, return_traceback) ==
    IF outcome = "value"
    THEN [kind |-> "return", tool_name |-> tool_name, ok |-> TRUE,
          diag |-> "none", trace |-> FALSE, template |-> FALSE,
          outcome |-> outcome, ran |-> TRUE, args |-> args]
    ELSE IF outcome = "TypeError"
    THEN [kind |-> "return", tool_name |-> tool_name, ok |-> FALSE,
          diag |-> "bad_arguments", trace |-> TRUE, template |-> FALSE,
          outcome |-> outcome, ran |-> TRUE, args |-> args]
    ELSE [kind |-> "raise", exc |-> outcome, tool_name |-> tool_name,
          diag |-> "execution_error", ran |-> TRUE]

HandlerResult(tool_name, args, outcome, return_traceback) ==
    IF outcome = "value"
    THEN [kind |-> "return", tool_name |-> tool_name, ok |-> TRUE,
          diag |-> "none", trace |-> FALSE, template |-> FALSE,
          outcome |-> outcome, ran |-> TRUE, args |-> args]
    ELSE IF outcome = "TypeError"
    THEN [kind |-> "return", tool_name |-> tool_name, ok |-> FALSE,
          diag |-> "bad_arguments", trace |-> TRUE, template |-> FALSE,
          outcome |-> outcome, ran |-> TRUE, args |-> args]
    ELSE \* except Exception (88-103): domain errors and every other failure.
         \* With return_traceback the string of line 99 is added as it is
         \* written: it is no f-string, so the result holds the header and
         \* the unformatted template, not the failure trace.
         [kind |-> "return", tool_name |-> tool_name, ok |-> FALSE,
          diag |-> "execution_error", trace |-> FALSE,
          template |-> return_traceback,
          outcome |-> outcome, ran |-> TRUE, args |-> args]

\* tool.py 33-103
execute_tool_call(tool_name, parameters, return_traceback, outcome) ==
    /\ handlerRuns < MaxRuns
    /\ IF tool_name \notin DOMAIN REGISTERED_TOOLS
       THEN /\ dispatch' = MissingHandlerResult(tool_name)
            /\ UNCHANGED handlerRuns
       ELSE /\ dispatch' = HandlerResult(tool_name, ProcessedParams(parameters),
                                         outcome, return_traceback)
                              @@ [parameters |-> parameters]
            /\ handlerRuns' = handlerRuns + 1
    /\ UNCHANGED REGISTERED_TOOLS

ParamMaps == UNION {[S -> ParamStrs] : S \in SUBSET ParamNames}

InitDispatch ==
    /\ DispIdle
    /\ TagIdle /\ PatchIdle /\ DocIdle /\ InclIdle /\ MapIdle

NextDispatch ==
    \/ /\ \E name \in ToolNames, func \in HandlerIds : register_tool(name, func)
       /\ UNCHANGED <<tagVars, patchVars, docVars, inclVars, mapVars>>
    \/ /\ \E tool_name \in ToolNames, parameters \in ParamMaps,
             return_traceback \in BOOLEAN, outcome \in HandlerOutcomes :
                execute_tool_call(tool_name, parameters, return_traceback, outcome)
       /\ UNCHANGED <<tagVars, patchVars, docVars, inclVars, mapVars>>

SpecDispatch == InitDispatch /\ [][NextDispatch]_vars

C14_TraceByFailureClass ==
    (dispatch.kind = "return" /\ dispatch.ran /\ ~dispatch.ok)
    => (dispatch.trace <=> dispatch.outcome \in {"TypeError", "OtherError"})

\* C23: the handler is entered with one argument for each parameter of the
\* command, under the parameter's name: the boolean for a value that is
\* "true" or "false" in any letter case, and every other value, numerals
\* and the empty string included, as the string it is.
C23_OnlyBooleansCoerced ==
    (dispatch.kind = "return" /\ dispatch.ran)
    => /\ DOMAIN dispatch.args = DOMAIN dispatch.parameters
       /\ \A n \in DOMAIN dispatch.parameters :
            dispatch.args[n] =
              IF dispatch.parameters[n] \in {"true", "TRUE"} THEN <<"bool", "True">>
              ELSE IF dispatch.parameters[n] \in {"false", "False"} THEN <<"bool", "False">>
              ELSE <<"str", dispatch.parameters[n]>>

\* reached: a handler entered with an upper-case "TRUE" and a numeral
C23_Witness ==
    /\ dispatch.kind = "return"
    /\ dispatch.ran
    /\ dispatch.parameters = [p |-> "TRUE", q |-> "1"]
    /\ dispatch.args = [p |-> <<"bool", "True">>, q |-> <<"str", "1">>]

\* C21 (as claimed): the registry is append-only: every name that is
\* registered keeps the handler it was first registered with, whatever is
\* registered or dispatched afterwards.
C21_RegistryAppendOnly ==
    [][\A n \in DOMAIN REGISTERED_TOOLS :
          /\ n \in DOMAIN REGISTERED_TOOLS'
          /\ REGISTERED_TOOLS'[n] = REGISTERED_TOOLS[n]]_vars

\* what does hold: no step removes a name from the registry, and a dispatch
\* leaves the registry as it is
C21_NamesStayDispatchKeeps ==
    [][/\ DOMAIN REGISTERED_TOOLS \subseteq DOMAIN REGISTERED_TOOLS'
       /\ dispatch' # dispatch => REGISTERED_TOOLS' = REGISTERED_TOOLS]_vars

(***************************************************************************)
(* COMMAND-TAG PARSER  (src/domarkx/tool_call/roo_code/parser.py)          *)
(*                                                                         *)
(* The message is a sequence of tokens: an open tag <name>, a close tag    *)
(* </name>, a non-whitespace character, a whitespace character.  The       *)
(* regular expressions of the code match whole tags, so positions in the   *)
(* token sequence stand for the positions where a match can start or end.  *)
(* Indices are 0-based as in the code.                                     *)
(***************************************************************************)
TagNames == {"t", "a"}

Open(n)  == [tp |-> "open",  v |-> n]
Close(n) == [tp |-> "close", v |-> n]
Txt      == [tp |-> "text",  v |-> "1"]
Ws       == [tp |-> "ws",    v |-> " "]

Tokens == {Open(n) : n \in TagNames} \cup {Close(n) : n \in TagNames} \cup {Txt, Ws}

\* bound: tokens in a message
MaxMsgLen == 6

\* re.search of the open-tag pattern in s[from:]: index of the match or -1
SearchOpen(s, from) ==
    LET hits == {j \in from..(Len(s) - 1) : s[j + 1].tp = "open"}
    IN  IF hits = {} THEN -1 ELSE CHOOSE j \in hits : \A k \in hits : j <= k

\* pattern.search(s, from) of the close tag of name: index of the match or -1
SearchClose(s, from, name) ==
    LET hits == {j \in from..(Len(s) - 1) : s[j + 1] = Close(name)}
    IN  IF hits = {} THEN -1 ELSE CHOOSE j \in hits : \A k \in hits : j <= k

\* str.strip() on a token sequence
RECURSIVE LStrip(_)
LStrip(s) == IF s # <<>> /\ Head(s).tp = "ws" THEN LStrip(Tail(s)) ELSE s

RECURSIVE RStrip(_)
RStrip(s) ==
    IF s # <<>> /\ s[Len(s)].tp = "ws" THEN RStrip(SubSeq(s, 1, Len(s) - 1)) ELSE s

Strip(s) == RStrip(LStrip(s))

SetParam(params, name, value) ==
    [n \in (DOMAIN params) \cup {name} |-> IF n = name THEN value ELSE params[n]]

\* parser.py 48-73 and 102-131: where the body that starts at `from` ends when
\* the tag `name` is looked for in s: <<end of the content, where scanning
\* resumes>>
BodyEnd(s, from, name) ==
    LET c == SearchClose(s, from, name)
        o == SearchOpen(s, from)
    IN  IF c >= 0 THEN <<c, c + 1>>
        ELSE IF o >= 0 THEN <<o, o>>
        ELSE <<Len(s), Len(s)>>

\* parser.py 76-135: the parameters of one tool block; ok is FALSE when
\* non-whitespace text precedes a parameter's open tag (ToolCallParsingError)
RECURSIVE ParseParams(_, _, _)
ParseParams(tool_block_content, temp_idx, current_params) ==
    IF temp_idx >= Len(tool_block_content)
    THEN [ok |-> TRUE, params |-> current_params]
    ELSE
      LET m == SearchOpen(tool_block_content, temp_idx)
      IN  IF m < 0 THEN [ok |-> TRUE, params |-> current_params]
          ELSE IF Strip(Slice(tool_block_content, temp_idx, m)) # <<>>
          THEN [ok |-> FALSE, params |-> current_params]
          ELSE
            LET param_name == tool_block_content[m + 1].v
                param_content_start == m + 1
                be == BodyEnd(tool_block_content, param_content_start, param_name)
                param_value_raw == Slice(tool_block_content, param_content_start, be[1])
            IN  ParseParams(tool_block_content, be[2],
                            SetParam(current_params, param_name, Strip(param_value_raw)))

\* parser.py 32-142: the main loop of parse_tool_calls from position idx
RECURSIVE ParseFrom(_, _, _)
ParseFrom(msg, idx, calls) ==
    IF idx >= Len(msg) THEN [status |-> "ok", calls |-> calls]
    ELSE IF msg[idx + 1].tp # "open" THEN ParseFrom(msg, idx + 1, calls)
    ELSE
      LET tool_name == msg[idx + 1].v
          tool_start_tag_end == idx + 1
          be == BodyEnd(msg, tool_start_tag_end, tool_name)
          tool_block_content == Slice(msg, tool_start_tag_end, be[1])
          parsed == ParseParams(tool_block_content, 0, <<>>)
      IN  IF ~parsed.ok THEN [status |-> "raise", calls |-> <<>>]
          ELSE ParseFrom(msg, be[2],
                         Append(calls, [tool_name |-> tool_name,
                                        parameters |-> parsed.params]))

parse_tool_calls(msg) == ParseFrom(msg, 0, <<>>)

ParseToolCalls ==
    /\ tool_calls.status = "none"
    /\ tool_calls' = parse_tool_calls(message)
    /\ UNCHANGED message

InitTags ==
    /\ message \in SeqsUpTo(Tokens, MaxMsgLen)
    /\ tool_calls = [status |-> "none", calls |-> <<>>]
    /\ DispIdle /\ PatchIdle /\ DocIdle /\ InclIdle /\ MapIdle

NextTags ==
    /\ ParseToolCalls
    /\ UNCHANGED <<dispVars, patchVars, docVars, inclVars, mapVars>>

SpecTags == InitTags /\ [][NextTags]_vars

\* a text made of an unclosed command tag, one parameter open tag and a value
\* without tags: "<n><p>value", the value not all whitespace
IsTruncatedCommand(msg) ==
    /\ Len(msg) >= 3
    /\ msg[1].tp = "open" /\ msg[2].tp = "open"
    /\ \A i \in 3..Len(msg) : msg[i].tp \in {"text", "ws"}
    /\ Strip(Slice(msg, 2, Len(msg))) # <<>>

\* C2 (as claimed): a command whose open tag is never closed keeps the
\* parameters opened in its body: "<t><a>1" parses to exactly one command t
\* with parameters {a: "1"}.
C2_TruncatedCommandKeepsParams ==
    (tool_calls.status # "none" /\ IsTruncatedCommand(message))
    => /\ tool_calls.status = "ok"
       /\ Len(tool_calls.calls) = 1
       /\ tool_calls.calls[1].tool_name = message[1].v
       /\ tool_calls.calls[1].parameters =
            SetParam(<<>>, message[2].v, Strip(Slice(message, 2, Len(message))))

IsTag(tok) == tok.tp \in {"open", "close"}

NoTags(s) == \A i \in 1..Len(s) : ~IsTag(s[i])

\* s is made of closed elements "<x>...</x>" with no tag inside, of
\* whitespace between them and, if loose_text, of any other text between them
RECURSIVE FlatElements(_, _)
FlatElements(s, loose_text) ==
    IF s = <<>> THEN TRUE
    ELSE IF Head(s).tp = "ws" THEN FlatElements(Tail(s), loose_text)
    ELSE IF Head(s).tp = "text" THEN loose_text /\ FlatElements(Tail(s), loose_text)
    ELSE IF Head(s).tp = "close" THEN FALSE
    ELSE LET tags == {c \in 2..Len(s) : IsTag(s[c])}
         IN  /\ tags # {}
             /\ LET c == CHOOSE c \in tags : \A k \in tags : c <= k
                IN  /\ s[c] = Close(Head(s).v)
                    /\ FlatElements(SubSeq(s, c + 1, Len(s)), loose_text)

\* the text holds non-whitespace text inside a command body before a
\* parameter's open tag: after closed commands only, a command opens at i;
\* its body runs to its close tag or, when it has none, to the end of the
\* text; the body starts with closed parameters only, then holds text that is
\* not all whitespace, then the open tag of a parameter at j
StrayTextAt(msg, i, j) ==
    /\ i < j
    /\ msg[i].tp = "open" /\ msg[j].tp = "open"
    /\ FlatElements(SubSeq(msg, 1, i - 1), TRUE)
    /\ LET closes == {c \in (i + 1)..Len(msg) : msg[c] = Close(msg[i].v)}
       IN  IF closes # {}
           THEN \A c \in closes : j < c
           ELSE \A k \in (j + 1)..Len(msg) : msg[k].tp # "open"
    /\ \E k \in i..(j - 1) :
          /\ FlatElements(SubSeq(msg, i + 1, k), FALSE)
          /\ NoTags(SubSeq(msg, k + 1, j - 1))
          /\ \E x \in (k + 1)..(j - 1) : msg[x].tp = "text"

HasStrayText(msg) ==
    \E i \in 1..Len(msg), j \in 1..Len(msg) : StrayTextAt(msg, i, j)

\* C12 (as claimed): whenever non-whitespace text stands inside a command
\* body before a parameter's open tag, parse_tool_calls raises
\* ToolCallParsingError and returns no command list, not even the commands
\* parsed earlier in the text.
C12_StrayTextRaises ==
    (tool_calls.status # "none" /\ HasStrayText(message))
    => (tool_calls.status = "raise" /\ tool_calls.calls = <<>>)

\* the same for commands whose close tag is in the text (this holds)
ClosedCommandStrayTextRaises ==
    (/\ tool_calls.status # "none"
     /\ \E i \in 1..Len(message), j \in 1..Len(message) :
           /\ StrayTextAt(message, i, j)
           /\ \E c \in (i + 1)..Len(message) : message[c] = Close(message[i].v))
    => (tool_calls.status = "raise" /\ tool_calls.calls = <<>>)

\* the text closes an empty tag p explicitly: "<p></p>", or whitespace only
\* between the two tags
ClosesEmptyTag(msg, name) ==
    \E i \in 1..Len(msg), j \in 1..Len(msg) :
        /\ i < j
        /\ msg[i] = Open(name) /\ msg[j] = Close(name)
        /\ \A k \in (i + 1)..(j - 1) : msg[k].tp = "ws"

\* C13 (as claimed): in every command parse_tool_calls returns, a parameter
\* is mapped to the empty string only if the text explicitly closed an
\* empty tag of that name; a parameter that never received a value is absent.
C13_EmptyOnlyIfClosedEmpty ==
    tool_calls.status = "ok"
    => \A n \in 1..Len(tool_calls.calls) :
         \A name \in DOMAIN tool_calls.calls[n].parameters :
            tool_calls.calls[n].parameters[name] = <<>>
            => ClosesEmptyTag(message, name)

\* the first position at or after i of s that holds a tag, Len(s) if none
RECURSIVE SkipText(_, _)
SkipText(s, i) ==
    IF i >= Len(s) \/ IsTag(s[i + 1]) THEN i ELSE SkipText(s, i + 1)

RECURSIVE SkipWs(_, _)
SkipWs(s, i) ==
    IF i >= Len(s) \/ s[i + 1].tp # "ws" THEN i ELSE SkipWs(s, i + 1)

\* The parameters of a command written in full, read with every close tag
\* paired to the open tag it follows: from position i inside the body of
\* command c, whitespace, then either the close tag of c or a parameter
\* "<p>value</p>" with a value without tags and a name not used before in
\* this command.  wf is FALSE when the text is not of this form.
RECURSIVE PairedParams(_, _, _, _)
PairedParams(s, i, c, params) ==
    LET j == SkipWs(s, i)
    IN  IF j >= Len(s) THEN [wf |-> FALSE, params |-> params, next |-> j]
        ELSE IF s[j + 1] = Close(c) THEN [wf |-> TRUE, params |-> params, next |-> j + 1]
        ELSE IF s[j + 1].tp # "open" THEN [wf |-> FALSE, params |-> params, next |-> j]
        ELSE
          LET param_name == s[j + 1].v
              k == SkipText(s, j + 1)
          IN  IF \/ param_name \in DOMAIN params
                 \/ k >= Len(s)
                 \/ s[k + 1] # Close(param_name)
              THEN [wf |-> FALSE, params |-> params, next |-> k]
              ELSE PairedParams(s, k + 1, c,
                                SetParam(params, param_name, Strip(Slice(s, j + 1, k))))

\* The commands of a text made of commands written in full and text without
\* tags between them, one command for each top-level tag pair, in text order.
RECURSIVE PairedCommands(_, _, _)
PairedCommands(s, i, calls) ==
    LET j == SkipText(s, i)
    IN  IF j >= Len(s) THEN [wf |-> TRUE, calls |-> calls]
        ELSE IF s[j + 1].tp # "open" THEN [wf |-> FALSE, calls |-> calls]
        ELSE
          LET r == PairedParams(s, j + 1, s[j + 1].v, <<>>)
          IN  IF ~r.wf THEN [wf |-> FALSE, calls |-> calls]
              ELSE PairedCommands(s, r.next,
                                  Append(calls, [tool_name |-> s[j + 1].v,
                                                 parameters |-> r.params]))

MadeOfCommands(msg) == PairedCommands(msg, 0, <<>>).wf

\* C24 (as claimed): for a text made of commands whose open and close tags
\* all match and whose parameter names are distinct within each command,
\* parse_tool_calls returns one command for each top-level tag pair, in text
\* order, each with its parameters mapped to their trimmed values; text
\* between commands is skipped.
C24_OneCommandPerTagPair ==
    (tool_calls.status # "none" /\ MadeOfCommands(message))
    => /\ tool_calls.status = "ok"
       /\ tool_calls.calls = PairedCommands(message, 0, <<>>).calls

\* no parameter of a command has the name of the command
NoParamNamedLikeCommand(calls) ==
    \A n \in 1..Len(calls) : calls[n].tool_name \notin DOMAIN calls[n].parameters

\* C24, the part that holds: the same for texts in which no parameter has
\* the name of its command.
C24_OneCommandPerTagPairOtherNames ==
    (/\ tool_calls.status # "none"
     /\ MadeOfCommands(message)
     /\ NoParamNamedLikeCommand(PairedCommands(message, 0, <<>>).calls))
    => /\ tool_calls.status = "ok"
       /\ tool_calls.calls = PairedCommands(message, 0, <<>>).calls

(***************************************************************************)
(* PATCH ALGORITHM  (src/domarkx/tool_call/roo_code/tools/apply_diff.py)   *)
(*                                                                         *)
(* A file is a sequence of lines; a line is a string.  The diff text is a  *)
(* sequence of lines too: the four markers, the ':start_line:N' line and   *)
(* content lines.  Line terminators are not modelled: every line of the    *)
(* file and of the diff ends with a newline.                               *)
(***************************************************************************)
SEARCH_MARK  == [k |-> "SEARCH",  n |-> 0, v |-> "<<<<<<< SEARCH"]
DASH_MARK    == [k |-> "DASH",    n |-> 0, v |-> "-------"]
EQ_MARK      == [k |-> "EQ",      n |-> 0, v |-> "======="]
REPLACE_MARK == [k |-> "REPLACE", n |-> 0, v |-> ">>>>>>> REPLACE"]
StartLine(n) == [k |-> "start",   n |-> n, v |-> ":start_line:"]
Content(v)   == [k |-> "c",       n |-> 0, v |-> v]

\* str.strip() on the lines of the model
StripLine(l) ==
    IF l = " a" THEN "a" ELSE IF l = "b " THEN "b" ELSE l

StripAll(ls) == [i \in 1..Len(ls) |-> StripLine(ls[i])]

TextOf(dls) == [i \in 1..Len(dls) |-> dls[i].v]

\* apply_diff.py 116
search_window == 5

\* apply_diff.py 122-132: the offsets the window loop visits, and the first
\* of them whose stripped lines equal the stripped search lines (-1: none)
WindowOffsets(original_len, search_len, start_idx) ==
    Max2(0, start_idx - search_window) ..
        (Min2(original_len - search_len + 1, start_idx + search_window + 1) - 1)

MatchesAt(orig, search_stripped, i) ==
    StripAll(Slice(orig, i, i + Len(search_stripped))) = search_stripped

FirstMatchHighest(orig, search_lines, start_idx) ==
    LET hits == {i \in WindowOffsets(Len(orig), Len(search_lines), start_idx) :
                    MatchesAt(orig, StripAll(search_lines), i)}
    IN  IF hits = {} THEN -1 ELSE CHOOSE i \in hits : \A j \in hits : i >= j

FirstMatch(orig, search_lines, start_idx) ==
    LET hits == {i \in WindowOffsets(Len(orig), Len(search_lines), start_idx) :
                    MatchesAt(orig, StripAll(search_lines), i)}
    IN  IF hits = {} THEN -1 ELSE CHOOSE i \in hits : \A j \in hits : i <= j

\* apply_diff.py 101-161: locate one parsed block in the original lines
Locate(orig, start_line_num, search_lines, replace_lines) ==
    LET start_idx == start_line_num - 1
    IN  IF start_idx < 0 \/ start_idx + Len(search_lines) > Len(orig)
        THEN [err |-> "range"]
        ELSE LET found == FirstMatch(orig, search_lines, start_idx)
             IN  IF found < 0 THEN [err |-> "mismatch"]
                 ELSE [err |-> "none",
                       op |-> [start_idx |-> found,
                               search_len |-> Len(search_lines),
                               replace_content |-> replace_lines]]

\* index (0-based) of the first line of kind k at or after i, or Len(dls)
RECURSIVE ScanTo(_, _, _)
ScanTo(dls, i, k) ==
    IF i >= Len(dls) \/ dls[i + 1].k = k THEN i ELSE ScanTo(dls, i + 1, k)

\* apply_diff.py 51-161: the SEARCH marker is at index i; parse the block
\* that follows it and locate it
ParseBlock(dls, i, orig) ==
    LET i1 == i + 1
    IN  IF i1 >= Len(dls) THEN [err |-> "format_no_content"]
        ELSE IF dls[i1 + 1].k # "start" THEN [err |-> "format_start_line"]
        ELSE
          LET i2 == i1 + 1
          IN  IF i2 >= Len(dls) \/ dls[i2 + 1].k # "DASH" THEN [err |-> "format_dash"]
              ELSE
                LET i3 == i2 + 1
                    i4 == ScanTo(dls, i3, "EQ")
                IN  IF i4 >= Len(dls) THEN [err |-> "format_eq"]
                    ELSE
                      LET i5 == i4 + 1
                          i6 == ScanTo(dls, i5, "REPLACE")
                      IN  IF i6 >= Len(dls) THEN [err |-> "format_end"]
                          ELSE
                            LET loc == Locate(orig, dls[i1 + 1].n,
                                              TextOf(Slice(dls, i3, i4)),
                                              TextOf(Slice(dls, i5, i6)))
                            IN  IF loc.err # "none" THEN [err |-> loc.err]
                                ELSE [err |-> "none", op |-> loc.op, next |-> i6 + 1]

\* apply_diff.py 166: list.sort(key=start_idx, reverse=True); the sort is
\* stable, so blocks with equal start_idx keep their diff order
RECURSIVE InsertDesc(_, _)
InsertDesc(sorted, op) ==
    IF sorted = <<>> THEN <<op>>
    ELSE IF Head(sorted).start_idx >= op.start_idx
         THEN <<Head(sorted)>> \o InsertDesc(Tail(sorted), op)
         ELSE <<op>> \o sorted

RECURSIVE SortDesc(_)
SortDesc(ops) ==
    IF ops = <<>> THEN <<>>
    ELSE InsertDesc(SortDesc(SubSeq(ops, 1, Len(ops) - 1)), ops[Len(ops)])

\* apply_diff.py 168-179: delete the span, insert the replacement lines
ApplyOne(lines, op) ==
    Slice(lines, 0, op.start_idx) \o op.replace_content
        \o Slice(lines, op.start_idx + op.search_len, Len(lines))

RECURSIVE ApplyAll(_, _)
ApplyAll(lines, ops) ==
    IF ops = <<>> THEN lines ELSE ApplyAll(ApplyOne(lines, Head(ops)), Tail(ops))

\* apply_diff.py 33-45: read the file, make the working copy, split the diff
ReadFile ==
    /\ pcD = "call"
    /\ original_lines' = disk
    /\ current_lines' = disk
    /\ current_line_in_diff' = 0
    /\ operations' = <<>>
    /\ pcD' = "parse"
    /\ UNCHANGED <<request, disk, diff_lines, diffError, writes>>

\* apply_diff.py 48-163: one iteration of the parsing loop
ParseStep ==
    /\ pcD = "parse"
    /\ current_line_in_diff < Len(diff_lines)
    /\ IF diff_lines[current_line_in_diff + 1].k # "SEARCH"
       THEN /\ current_line_in_diff' = current_line_in_diff + 1
            /\ UNCHANGED <<operations, pcD, diffError>>
       ELSE LET r == ParseBlock(diff_lines, current_line_in_diff, original_lines)
            IN  IF r.err # "none"
                THEN /\ pcD' = "raised"
                     /\ diffError' = r.err
                     /\ UNCHANGED <<operations, current_line_in_diff>>
                ELSE /\ operations' = Append(operations, r.op)
                     /\ current_line_in_diff' = r.next
                     /\ UNCHANGED <<pcD, diffError>>
    /\ UNCHANGED <<request, disk, original_lines, diff_lines, current_lines, writes>>

\* apply_diff.py 165-179: sort the located blocks and apply them in turn
ApplyOperations ==
    /\ pcD = "parse"
    /\ current_line_in_diff >= Len(diff_lines)
    /\ current_lines' = ApplyAll(current_lines, SortDesc(operations))
    /\ pcD' = "write"
    /\ UNCHANGED <<request, disk, original_lines, diff_lines, current_line_in_diff,
                   operations, diffError, writes>>

\* apply_diff.py 181-185: f.writelines(current_lines)
WriteFile ==
    /\ pcD = "write"
    /\ disk' = current_lines
    /\ writes' = writes + 1
    /\ pcD' = "done"
    /\ UNCHANGED <<request, original_lines, diff_lines, current_line_in_diff,
                   operations, current_lines, diffError>>

NextPatch ==
    \/ ReadFile /\ UNCHANGED <<dispVars, tagVars, docVars, inclVars, mapVars>>
    \/ ParseStep /\ UNCHANGED <<dispVars, tagVars, docVars, inclVars, mapVars>>
    \/ ApplyOperations /\ UNCHANGED <<dispVars, tagVars, docVars, inclVars, mapVars>>
    \/ WriteFile /\ UNCHANGED <<dispVars, tagVars, docVars, inclVars, mapVars>>

\* ---- the requests the model draws ----
FileLineVals   == {"a", "b "}
SearchLineVals == {" a", "b"}

\* bounds of the single-block requests
MaxFileLen   == 7
MaxSearchLen == 2

\* the text of one edit block; `omit` names a line left out of it
RenderBlock(b, omit) ==
    <<SEARCH_MARK>>
      \o (IF omit = "start" THEN <<>> ELSE <<StartLine(b.start)>>)
      \o (IF omit = "dash" THEN <<>> ELSE <<DASH_MARK>>)
      \o [i \in 1..Len(b.search) |-> Content(b.search[i])]
      \o (IF omit = "eq" THEN <<>> ELSE <<EQ_MARK>>)
      \o [i \in 1..Len(b.replace) |-> Content(b.replace[i])]
      \o (IF omit = "end" THEN <<>> ELSE <<REPLACE_MARK>>)

\* the diff text of a request: its blocks in order, the line `omit` left out
\* of block number `at`
RenderRequest(req) ==
    LET txt[i \in 0..Len(req.blocks)] ==
          IF i = 0 THEN <<>>
          ELSE txt[i - 1] \o RenderBlock(req.blocks[i],
                                         IF req.at = i THEN req.omit ELSE "none")
    IN  txt[Len(req.blocks)]

PatchCallState(file, req) ==
    /\ request = req
    /\ disk = file
    /\ diff_lines = RenderRequest(req)
    /\ original_lines = <<>>
    /\ current_lines = <<>>
    /\ current_line_in_diff = 0
    /\ operations = <<>>
    /\ pcD = "call"
    /\ diffError = "none"
    /\ writes = 0

InitPatch ==
    /\ \E file \in SeqsUpTo(FileLineVals, MaxFileLen) :
         \E start \in 0..(Len(file) + 2), search \in SeqsUpTo(SearchLineVals, MaxSearchLen) :
            PatchCallState(file,
                [blocks |-> <<[start |-> start, search |-> search, replace |-> <<"X">>]>>,
                 omit |-> "none", at |-> 0])
    /\ DispIdle /\ TagIdle /\ DocIdle /\ InclIdle /\ MapIdle

SpecPatch == InitPatch /\ [][NextPatch]_vars

\* bounds of the requests with several blocks
MaxBlocks       == 2
MaxFileLenMulti == 3

Omissions == {"start", "dash", "eq", "end"}

BlocksFor(file) ==
    [start : 1..(Len(file) + 1),
     search : SeqsUpTo(SearchLineVals, 1),
     replace : {<<>>, <<"X">>, <<"Y">>}]

InitPatchMulti ==
    /\ \E file \in SeqsUpTo(FileLineVals, MaxFileLenMulti) :
         \E blocks \in UNION {[1..n -> BlocksFor(file)] : n \in 1..MaxBlocks} :
            \/ PatchCallState(file, [blocks |-> blocks, omit |-> "none", at |-> 0])
            \/ \E omit \in Omissions, at \in 1..Len(blocks) :
                  PatchCallState(file, [blocks |-> blocks, omit |-> omit, at |-> at])
    /\ DispIdle /\ TagIdle /\ DocIdle /\ InclIdle /\ MapIdle

SpecPatchMulti == InitPatchMulti /\ [][NextPatch]_vars

(***************************************************************************)
(* What the claims say about a block, stated on the request and the file   *)
(* as it was when the call began (original_lines once ReadFile has run).   *)
(***************************************************************************)
\* the declared range of block b lies inside the file
DeclaredInFile(file, b) ==
    b.start >= 1 /\ (b.start - 1) + Len(b.search) <= Len(file)

\* the file lines at 0-based offset i equal the search lines of b, line by
\* line after stripping
SearchMatchesAt(file, b, i) ==
    /\ i >= 0 /\ i + Len(b.search) <= Len(file)
    /\ \A j \in 1..Len(b.search) : StripLine(file[i + j]) = StripLine(b.search[j])

\* the offsets within 5 lines of the declared start line that match
WindowHits(file, b) ==
    {i \in ((b.start - 1) - 5)..((b.start - 1) + 5) : SearchMatchesAt(file, b, i)}

LowestHit(file, b) ==
    CHOOSE i \in WindowHits(file, b) : \A j \in WindowHits(file, b) : i <= j

\* the call has got past its only block / has ended
BlockSettled == pcD \in {"write", "done", "raised"}

TheBlock == request.blocks[1]

\* C4 (as claimed): when the file lines at the declared start line equal the
\* search lines (stripped), the block is resolved to the declared start line,
\* even if a lower offset of the window matches too.  Stated for the blocks
\* with a non-empty search section.
C4_DeclaredOffsetWins ==
    (/\ pcD \in {"write", "done"}
     /\ Len(request.blocks) = 1
     /\ Len(TheBlock.search) >= 1
     /\ SearchMatchesAt(original_lines, TheBlock, TheBlock.start - 1))
    => operations[1].start_idx = TheBlock.start - 1

\* C5 (as claimed): a block whose declared start line does not match is
\* applied at the lowest matching offset within 5 lines of it, and fails
\* when no offset of the window matches.  Stated for the blocks with a
\* non-empty search section and a declared start line of 1 or more; any of
\* the two diagnostics of the locating step counts as the failure.
C5_WindowFallback ==
    (/\ BlockSettled
     /\ Len(request.blocks) = 1
     /\ Len(TheBlock.search) >= 1
     /\ TheBlock.start >= 1
     /\ ~SearchMatchesAt(original_lines, TheBlock, TheBlock.start - 1))
    => IF WindowHits(original_lines, TheBlock) # {}
       THEN /\ pcD # "raised"
            /\ operations[1].start_idx = LowestHit(original_lines, TheBlock)
       ELSE pcD = "raised" /\ diffError \in {"mismatch", "range"}

\* C5 (amended): a block whose declared range lies inside the file and whose
\* declared start line does not match is applied at the lowest matching
\* offset within 5 lines of it (the file then holds the replacement lines in
\* place of that span), and fails with the mismatch diagnostic when no offset
\* of the window matches; a block whose declared range lies outside the file
\* fails with the out-of-range diagnostic whatever the window holds.
C5_WindowFallbackInRange ==
    (/\ BlockSettled
     /\ Len(request.blocks) = 1
     /\ ~SearchMatchesAt(original_lines, TheBlock, TheBlock.start - 1))
    => IF ~DeclaredInFile(original_lines, TheBlock)
       THEN pcD = "raised" /\ diffError = "range" /\ disk = original_lines
       ELSE IF WindowHits(original_lines, TheBlock) # {}
       THEN LET at == LowestHit(original_lines, TheBlock)
            IN  /\ pcD # "raised"
                /\ operations[1].start_idx = at
                /\ pcD = "done" =>
                     disk = Slice(original_lines, 0, at) \o TheBlock.replace
                              \o Slice(original_lines, at + Len(TheBlock.search),
                                       Len(original_lines))
       ELSE pcD = "raised" /\ diffError = "mismatch" /\ disk = original_lines

\* a block applied above its declared line although a second offset of the
\* window, below the declared line, matched too
C5_Witness ==
    /\ pcD = "done"
    /\ Len(request.blocks) = 1
    /\ Len(TheBlock.search) = 2
    /\ DeclaredInFile(original_lines, TheBlock)
    /\ ~SearchMatchesAt(original_lines, TheBlock, TheBlock.start - 1)
    /\ Cardinality(WindowHits(original_lines, TheBlock)) >= 2
    /\ operations[1].start_idx = TheBlock.start - 1 - 5
    /\ disk # original_lines

\* every block of the request is well formed and can be located
RequestIsSound(file, req) ==
    /\ req.omit = "none"
    /\ \A k \in 1..Len(req.blocks) :
          /\ DeclaredInFile(file, req.blocks[k])
          /\ WindowHits(file, req.blocks[k]) # {}

\* C3 (as claimed): when any block of the request fails (a missing
\* ':start_line:', '-------', '=======' or REPLACE end marker, a declared
\* range outside the file, no match in the window) the call raises and the
\* file is what it was before the call; when all blocks succeed the file is
\* written exactly once.  Stated for the requests whose blocks all have a
\* non-empty search section.
C3_AllOrNothing ==
    (\A k \in 1..Len(request.blocks) : Len(request.blocks[k].search) >= 1)
    => /\ pcD # "done" => (writes = 0 /\ (pcD # "call" => disk = original_lines))
       /\ pcD = "done" => (writes = 1 /\ RequestIsSound(original_lines, request))

\* the resolved spans of the located blocks
SpanOf(op) == [lo |-> op.start_idx, hi |-> op.start_idx + op.search_len]

Disjoint(x, y) == x.hi <= y.lo \/ y.hi <= x.lo

PairwiseDisjoint(ops) ==
    \A i, j \in 1..Len(ops) : i # j => Disjoint(SpanOf(ops[i]), SpanOf(ops[j]))

\* the file with the span of each block replaced by that block's lines, the
\* blocks taken in the order `ord` of their spans in the file
RECURSIVE Replaced(_, _, _, _)
Replaced(file, ops, ord, from) ==
    IF ord = <<>> THEN Slice(file, from, Len(file))
    ELSE LET op == ops[Head(ord)]
         IN  Slice(file, from, op.start_idx) \o op.replace_content
               \o Replaced(file, ops, Tail(ord), op.start_idx + op.search_len)

\* the orders in which the spans lie in the file, one after the other
FileOrders(ops) ==
    {ord \in [1..Len(ops) -> 1..Len(ops)] :
        /\ \A i, j \in 1..Len(ops) : i # j => ord[i] # ord[j]
        /\ \A i \in 1..(Len(ops) - 1) :
              SpanOf(ops[ord[i]]).hi <= SpanOf(ops[ord[i + 1]]).lo}

\* C6 (as claimed): when the resolved spans of the blocks are pairwise
\* disjoint, the result is the original file with each span replaced by its
\* own block's replacement lines, whatever the order of the blocks in the
\* diff text.
C6_DisjointBlocksEachReplaced ==
    (/\ pcD \in {"write", "done"}
     /\ request.omit = "none"
     /\ Len(operations) = Len(request.blocks)
     /\ PairwiseDisjoint(operations))
    => \E ord \in FileOrders(operations) :
          current_lines = Replaced(original_lines, operations, ord, 0)

\* the offsets of the file that lie in the resolved span of some block
InSomeSpan(ops) ==
    {i \in 0..(Len(original_lines) - 1) :
        \E k \in 1..Len(ops) : SpanOf(ops[k]).lo <= i /\ i < SpanOf(ops[k]).hi}

\* the lines of the file outside all the spans, in file order
RECURSIVE LinesOutside(_, _, _)
LinesOutside(file, inside, i) ==
    IF i >= Len(file) THEN <<>>
    ELSE (IF i \in inside THEN <<>> ELSE <<file[i + 1]>>)
           \o LinesOutside(file, inside, i + 1)

\* small is what is left of big when some of its lines are taken out
RECURSIVE IsSubsequence(_, _)
IsSubsequence(small, big) ==
    IF small = <<>> THEN TRUE
    ELSE IF big = <<>> THEN FALSE
    ELSE IF Head(small) = Head(big) THEN IsSubsequence(Tail(small), Tail(big))
    ELSE IsSubsequence(small, Tail(big))

\* C25 (as claimed): after a successful apply_diff every line of the
\* original file outside all the resolved spans of the request's blocks is
\* in the result, unchanged and in its original relative order, also when
\* two blocks resolve to overlapping or identical spans.
C25_LinesOutsideSpansKept ==
    (pcD \in {"write", "done"} /\ Len(operations) = Len(request.blocks))
    => IsSubsequence(LinesOutside(original_lines, InSomeSpan(operations), 0),
                     current_lines)

\* C25, the part that holds: the same for requests whose resolved spans are
\* pairwise disjoint.
C25_LinesOutsideDisjointSpansKept ==
    (/\ pcD \in {"write", "done"}
     /\ Len(operations) = Len(request.blocks)
     /\ PairwiseDisjoint(operations))
    => IsSubsequence(LinesOutside(original_lines, InSomeSpan(operations), 0),
                     current_lines)

\* C29 (as claimed): an edit block whose search section is empty removes
\* no line and inserts its replacement lines immediately before the declared
\* start line, for every declared start line within the file.
C29_EmptySearchInsertsAtStart ==
    (/\ pcD \in {"write", "done"}
     /\ Len(request.blocks) = 1
     /\ TheBlock.search = <<>>
     /\ TheBlock.start \in 1..Len(original_lines))
    => current_lines = Slice(original_lines, 0, TheBlock.start - 1)
                         \o TheBlock.replace
                         \o Slice(original_lines, TheBlock.start - 1, Len(original_lines))

\* C29, the part that holds: such a block removes no line, and inserts its
\* replacement lines before the line that lies search_window lines above the
\* declared start line, before the first line when there are fewer above.
C29_EmptySearchInsertsAtWindowStart ==
    (/\ pcD \in {"write", "done"}
     /\ Len(request.blocks) = 1
     /\ TheBlock.search = <<>>
     /\ TheBlock.start \in 1..Len(original_lines))
    => LET at == IF TheBlock.start - 1 - search_window > 0
                 THEN TheBlock.start - 1 - search_window ELSE 0
       IN  current_lines = Slice(original_lines, 0, at)
                             \o TheBlock.replace
                             \o Slice(original_lines, at, Len(original_lines))

(***************************************************************************)
(* CHAT DOCUMENT  (src/domarkx/utils/chat_doc_parser.py)                   *)
(*                                                                         *)
(* A text is a sequence of complete lines.  A line is a sequence of        *)
(* pieces joined by a form feed, a character on which str.splitlines       *)
(* splits and on which neither the Markdown parser nor '^' and '$' of the  *)
(* directive pattern do; almost every line has one piece.  A piece is a    *)
(* record: d is the number of "> " markers it starts with, k its kind, v   *)
(* what it carries:                                                        *)
(*   blank   nothing                                                       *)
(*   h2      "## " and the characters of v                                 *)
(*   fence   "```" and the info string v (a sequence of words)             *)
(*   text    the characters v[1]                                           *)
(*   inc     "[include](v[1])" or "[include](v[1]#v[2])"                   *)
(*   err     "**ERROR**: " and the diagnostic named by v[1]                *)
(***************************************************************************)
Piece(d, k, v) == [d |-> d, k |-> k, v |-> v]

Blank           == <<Piece(0, "blank", <<>>)>>
H2Line(text)    == <<Piece(0, "h2", text)>>
FenceLine(info) == <<Piece(0, "fence", info)>>
TextLine(t)     == <<Piece(0, "text", <<t>>)>>

\* "> " written before a line, and the same marker taken off a quote line
Quoted(line)   == [line EXCEPT ![1].d = @ + 1]
Unquoted(line) == [line EXCEPT ![1].d = @ - 1]

\* two lines joined by a form feed instead of a newline
FormFeedJoin(l1, l2) == l1 \o l2

CONFIG_BLOCK_LANG     == <<"session-config">>
MESSAGE_METADATA_LANG == <<"msg-metadata">>
JsonMetaInfo          == <<"json", " ", "msg-metadata">>
NoInfo                == <<>>

\* `lang in info`: substring test on the info string, here a sequence of words
InfoContains(info, lang) ==
    \E i \in 1..Len(info) : <<info[i]>> = lang

\* str.strip() on a sequence of characters
RECURSIVE LStripChars(_)
LStripChars(cs) == IF cs # <<>> /\ Head(cs) = " " THEN LStripChars(Tail(cs)) ELSE cs

RECURSIVE RStripChars(_)
RStripChars(cs) ==
    IF cs # <<>> /\ cs[Len(cs)] = " "
    THEN RStripChars(SubSeq(cs, 1, Len(cs) - 1)) ELSE cs

StripChars(cs) == RStripChars(LStripChars(cs))

\* json.loads on the raw text of a code block (its lines): the value, or
\* ok = FALSE and the exception raised.  Dictionaries are functions.
\* JsonDeep stands for a text of a thousand '[': the decoder nests one call
\* for each and raises RecursionError before it finds the text truncated.
JsonOneLine   == <<TextLine("{\"k\": 1}")>>
JsonIndented  == <<TextLine("{"), TextLine("  \"k\": 1"), TextLine("}")>>
JsonEmpty     == <<TextLine("{}")>>
JsonTruncated == <<TextLine("{")>>
JsonDeep      == <<TextLine("[[[[...")>>

json_loads(raw) ==
    IF raw = JsonEmpty THEN [ok |-> TRUE, value |-> <<>>, exc |-> "none"]
    ELSE IF raw = JsonOneLine \/ raw = JsonIndented
    THEN [ok |-> TRUE, value |-> [k |-> 1], exc |-> "none"]
    ELSE IF raw = JsonDeep
    THEN [ok |-> FALSE, value |-> <<>>, exc |-> "RecursionError"]
    ELSE [ok |-> FALSE, value |-> <<>>, exc |-> "JSONDecodeError"]

\* json.dumps(value, indent=2, ensure_ascii=False), as lines
json_dumps(value) == IF value = <<>> THEN JsonEmpty ELSE JsonIndented

\* ---- the Markdown block parser (mistune, with the BlockParser of lines
\* 44-53): the token list handed to the loop of line 298 ----
Token(type, info, text, code, quote) ==
    [type |-> type, info |-> info, text |-> text, code |-> code, quote |-> quote]

IsQuoteLine(line) == line[1].d >= 1
IsFenceLine(line) == line[1].d = 0 /\ line[1].k = "fence"

\* index of the closing fence of the code block opened at line i, or 0: an
\* unclosed fence runs to the end of the text
ClosingFence(lines, i) ==
    LET hits == {j \in (i + 1)..Len(lines) : lines[j] = FenceLine(NoInfo)}
    IN  IF hits = {} THEN 0 ELSE CHOOSE j \in hits : \A h \in hits : j <= h

\* extract_block_quote (called at line 46): last line of the block quote
\* whose lines so far end at line j.  '>' lines continue it; unless the
\* quote opened with an empty line or a fence (strict), or its last '>'
\* line was empty (prev_blank_line), a line that is neither blank nor a
\* fence continues it too (lazy continuation).
RECURSIVE QuoteEnd(_, _, _, _)
QuoteEnd(lines, j, strict, prev_blank_line) ==
    IF j >= Len(lines) THEN j
    ELSE IF IsQuoteLine(lines[j + 1])
    THEN QuoteEnd(lines, j + 1, strict, Unquoted(lines[j + 1]) = Blank)
    ELSE IF strict \/ prev_blank_line \/ lines[j + 1] = Blank \/ IsFenceLine(lines[j + 1])
    THEN j
    ELSE QuoteEnd(lines, j + 1, strict, prev_blank_line)

\* the lines of a block quote as they stand in the text
QuoteRawVerbatim(lines, i, j) ==
    [n \in 1..(j - i + 1) |-> lines[i + n - 1]]

\* the text of a block quote with the '>' markers removed (lines 46-48)
QuoteRaw(lines, i, j) ==
    [n \in 1..(j - i + 1) |->
        IF IsQuoteLine(lines[i + n - 1]) THEN Unquoted(lines[i + n - 1])
        ELSE lines[i + n - 1]]

RECURSIVE Tokenize(_, _, _)
Tokenize(lines, i, toks) ==
    IF i > Len(lines) THEN toks
    ELSE
      LET ln == lines[i]
      IN  CASE IsQuoteLine(ln) ->
                 LET first == Unquoted(ln)
                     strict == first = Blank \/ IsFenceLine(first)
                     j == QuoteEnd(lines, i, strict, first = Blank)
                 IN  Tokenize(lines, j + 1,
                              Append(toks, Token("block_quote", <<>>, <<>>, <<>>,
                                                 QuoteRaw(lines, i, j))))
            [] ln = Blank ->
                 Tokenize(lines, i + 1,
                          Append(toks, Token("blank_line", <<>>, <<>>, <<>>, <<>>)))
            [] ~IsQuoteLine(ln) /\ ln[1].k = "h2" ->
                 Tokenize(lines, i + 1,
                          Append(toks, Token("heading", <<>>, ln[1].v, <<>>, <<>>)))
            [] IsFenceLine(ln) ->
                 LET c == ClosingFence(lines, i)
                     last == IF c = 0 THEN Len(lines) ELSE c - 1
                     next == IF c = 0 THEN Len(lines) + 1 ELSE c + 1
                 IN  Tokenize(lines, next,
                              Append(toks, Token("block_code", ln[1].v, <<>>,
                                                 SubSeq(lines, i + 1, last), <<>>)))
            [] OTHER ->
                 Tokenize(lines, i + 1,
                          Append(toks, Token("paragraph", <<>>, <<>>, <<>>, <<>>)))

markdown_parser(lines) == Tokenize(lines, 1, <<>>)

\* lines 312-313, 340-341, 359-363: skip blank_line nodes from index i (0-based)
RECURSIVE SkipBlank(_, _)
SkipBlank(ast_nodes, i) ==
    IF i < Len(ast_nodes) /\ ast_nodes[i + 1].type = "blank_line"
    THEN SkipBlank(ast_nodes, i + 1) ELSE i

IsCode(ast_nodes, i, lang) ==
    /\ i < Len(ast_nodes)
    /\ ast_nodes[i + 1].type = "block_code"
    /\ InfoContains(ast_nodes[i + 1].info, lang)

\* lines 302-331: the session-config block at node i
ParseConfig(ast_nodes, i, doc) ==
    LET loaded == json_loads(ast_nodes[i + 1].code)
        temp_i == SkipBlank(ast_nodes, i + 1)
        has_setup == temp_i < Len(ast_nodes) /\ ast_nodes[temp_i + 1].type = "block_code"
        parsed_post_config_block ==
            IF has_setup
            THEN [present |-> TRUE, language |-> ast_nodes[temp_i + 1].info]
            ELSE NoSetupCode
        config == [session_config |-> loaded.value,
                   session_setup_code |-> parsed_post_config_block]
    IN  IF loaded.exc = "JSONDecodeError"
        THEN [next |-> i + 1, doc |-> [doc EXCEPT !.errors = @ + 1]]
        ELSE IF ~loaded.ok
        THEN [next |-> i + 1, doc |-> [doc EXCEPT !.raised = loaded.exc]]
        ELSE [next |-> (IF has_setup THEN temp_i ELSE i) + 1,
              doc  |-> [doc EXCEPT !.config = config]]

ParseMessageWithBody(ast_nodes, i, doc) ==
    LET speaker_text == StripChars(ast_nodes[i + 1].text)
        msg_content_node_idx == SkipBlank(ast_nodes, i + 1)
        has_content == /\ msg_content_node_idx < Len(ast_nodes)
                       /\ ast_nodes[msg_content_node_idx + 1].type = "block_quote"
        current_message_obj ==
            [speaker  |-> speaker_text,
             content  |-> IF has_content THEN ast_nodes[msg_content_node_idx + 1].quote
                          ELSE <<>>,
             metadata |-> <<>>]
    IN  IF has_content
        THEN [next |-> msg_content_node_idx + 1,
              doc  |-> [doc EXCEPT !.conversation = Append(@, current_message_obj)]]
        ELSE [next |-> i + 1, doc |-> [doc EXCEPT !.errors = @ + 1]]

\* lines 333-387: the message that starts with the level-2 heading at node i
ParseMessage(ast_nodes, i, doc) ==
    LET speaker_text == StripChars(ast_nodes[i + 1].text)
        msg_meta_node_idx == SkipBlank(ast_nodes, i + 1)
        has_meta == IsCode(ast_nodes, msg_meta_node_idx, MESSAGE_METADATA_LANG)
        loaded == IF has_meta THEN json_loads(ast_nodes[msg_meta_node_idx + 1].code)
                  ELSE [ok |-> TRUE, value |-> <<>>, exc |-> "none"]
        i1 == IF has_meta THEN msg_meta_node_idx ELSE i
        msg_content_node_idx == SkipBlank(ast_nodes, i1 + 1)
        has_content == /\ msg_content_node_idx < Len(ast_nodes)
                       /\ ast_nodes[msg_content_node_idx + 1].type = "block_quote"
        i2 == IF has_content THEN msg_content_node_idx ELSE i1
        current_message_obj ==
            [speaker  |-> speaker_text,
             content  |-> IF has_content THEN ast_nodes[msg_content_node_idx + 1].quote
                          ELSE <<>>,
             metadata |-> IF loaded.ok THEN loaded.value ELSE <<>>]
        nerr == (IF loaded.ok THEN 0 ELSE 1) + (IF has_content THEN 0 ELSE 1)
    IN  IF loaded.exc \notin {"none", "JSONDecodeError"}
        THEN [next |-> i + 1, doc |-> [doc EXCEPT !.raised = loaded.exc]]
        ELSE [next |-> i2 + 1,
              doc  |-> [doc EXCEPT !.conversation = Append(@, current_message_obj),
                                   !.errors = @ + nerr]]

RECURSIVE ParseNodesLastConfig(_, _, _, _)
ParseNodesLastConfig(ast_nodes, i, config_parsed, doc) ==
    IF i >= Len(ast_nodes) \/ doc.raised # "none" THEN doc
    ELSE IF IsCode(ast_nodes, i, CONFIG_BLOCK_LANG)
    THEN LET r == ParseConfig(ast_nodes, i, doc)
         IN  ParseNodesLastConfig(ast_nodes, r.next, TRUE, r.doc)
    ELSE IF ast_nodes[i + 1].type = "heading"
    THEN LET r == ParseMessage(ast_nodes, i, doc)
         IN  ParseNodesLastConfig(ast_nodes, r.next, TRUE, r.doc)
    ELSE ParseNodesLastConfig(ast_nodes, i + 1, config_parsed, doc)

\* lines 296-395: the loop over the nodes.  The handlers of lines 329 and
\* 351 catch json.JSONDecodeError only: any other exception of json.loads
\* leaves parse, with the document as it then is in self.document (raised).
RECURSIVE ParseNodes(_, _, _, _)
ParseNodes(ast_nodes, i, config_parsed, doc) ==
    IF i >= Len(ast_nodes) \/ doc.raised # "none" THEN doc
    ELSE IF ~config_parsed /\ IsCode(ast_nodes, i, CONFIG_BLOCK_LANG)
    THEN LET r == ParseConfig(ast_nodes, i, doc)
         IN  ParseNodes(ast_nodes, r.next, TRUE, r.doc)
    ELSE IF ast_nodes[i + 1].type = "heading"
    THEN LET r == ParseMessage(ast_nodes, i, doc)
         IN  ParseNodes(ast_nodes, r.next, TRUE, r.doc)
    ELSE ParseNodes(ast_nodes, i + 1, config_parsed, doc)

\* MarkdownLLMParser.parse on a text without include directives
parse(md_content) == ParseNodes(markdown_parser(md_content), 0, FALSE, EmptyDocument)

\* str.splitlines(): every line ends at its newline and, within a line, at
\* every form feed, so that each piece becomes a line
RECURSIVE splitlines(_)
splitlines(text) ==
    IF text = <<>> THEN <<>>
    ELSE [n \in 1..Len(Head(text)) |-> <<Head(text)[n]>>] \o splitlines(Tail(text))

\* lines 431-441: the text append_message writes, as lines
append_message_text(msg) ==
    LET content_lines == splitlines(msg.content)
        quoted == IF content_lines = <<>> THEN <<Blank>>
                  ELSE [n \in 1..Len(content_lines) |-> Quoted(content_lines[n])]
    IN  <<Blank, Blank, H2Line(msg.speaker), Blank, FenceLine(JsonMetaInfo)>>
        \o json_dumps(msg.metadata)
        \o <<FenceLine(NoInfo), Blank>>
        \o quoted

\* ---- the documents of the model: blocks separated by blank lines ----
Speakers == {<<"u">>, <<"b", " ">>}

MetaBlock(json) == <<FenceLine(JsonMetaInfo)>> \o json \o <<FenceLine(NoInfo)>>

ConfigBlock == <<FenceLine(CONFIG_BLOCK_LANG)>> \o JsonEmpty \o <<FenceLine(NoInfo)>>

QuoteBlocks ==
    { <<Quoted(TextLine("a"))>>,
      <<Quoted(FormFeedJoin(TextLine("a"), TextLine("b")))>>,
      <<Quoted(TextLine("a")), Quoted(Blank)>>,
      <<Quoted(TextLine("a")), TextLine("b")>> }

DocBlocks ==
    {<<H2Line(sp)>> : sp \in Speakers}
      \cup {MetaBlock(j) : j \in {JsonEmpty, JsonOneLine, JsonTruncated}}
      \cup QuoteBlocks
      \cup {ConfigBlock}
      \cup {<<FenceLine(NoInfo)>>}

\* bound: blocks in a document
MaxDocBlocks == 4

RECURSIVE RenderDoc(_)
RenderDoc(blocks) ==
    IF blocks = <<>> THEN <<>>
    ELSE Head(blocks) \o <<Blank>> \o RenderDoc(Tail(blocks))

\* parser.parse(text) of the callers (domarkx.py 35-37 and 130-131)
ParseDoc ==
    /\ pcDoc = "idle"
    /\ document' = parse(docText)
    /\ pcDoc' = IF document'.raised = "none" THEN "parsed" ELSE "raised"
    /\ UNCHANGED <<docText, appended, action>>

\* append_message(writer, Message(m.speaker, m.content, m.metadata)) for a
\* message m of the parsed document, the writer positioned at the end of
\* the document text
AppendMessage ==
    /\ pcDoc = "parsed"
    /\ \E n \in 1..Len(document.conversation) :
         LET m == document.conversation[n]
             msg == [speaker |-> m.speaker, content |-> m.content,
                     metadata |-> m.metadata]
         IN  /\ appended' = msg
             /\ docText' = docText \o append_message_text(msg)
    /\ pcDoc' = "appended"
    /\ UNCHANGED <<document, action>>

\* the text with the appended message is parsed again
Reparse ==
    /\ pcDoc = "appended"
    /\ document' = parse(docText)
    /\ pcDoc' = IF document'.raised = "none" THEN "reparsed" ELSE "raised"
    /\ UNCHANGED <<docText, appended, action>>

InitDoc ==
    /\ docText \in {RenderDoc(bs) : bs \in SeqsUpTo(DocBlocks, MaxDocBlocks)}
    /\ document = EmptyDocument
    /\ appended = NoMessage
    /\ pcDoc = "idle"
    /\ action = NoAction
    /\ DispIdle /\ TagIdle /\ PatchIdle /\ InclIdle /\ MapIdle

NextDoc ==
    \/ ParseDoc /\ UNCHANGED <<dispVars, tagVars, patchVars, inclVars, mapVars>>
    \/ AppendMessage /\ UNCHANGED <<dispVars, tagVars, patchVars, inclVars, mapVars>>
    \/ Reparse /\ UNCHANGED <<dispVars, tagVars, patchVars, inclVars, mapVars>>

SpecDoc == InitDoc /\ [][NextDoc]_vars

LastMessage == document.conversation[Len(document.conversation)]

\* C7 (as claimed): after a message of the parsed document has been appended
\* with append_message and the text parsed again, the last message of the
\* new document has the speaker, content and metadata of the appended one.
C7_RoundTrip ==
    pcDoc = "reparsed"
    => /\ document.conversation # <<>>
       /\ LastMessage.speaker = appended.speaker
       /\ LastMessage.content = appended.content
       /\ LastMessage.metadata = appended.metadata

\* the lines of text from line i on are the lines of body
OccursAt(text, i, body) ==
    /\ i + Len(body) - 1 <= Len(text)
    /\ \A n \in 1..Len(body) : text[i + n - 1] = body[n]

Parsed == pcDoc \in {"parsed", "reparsed"}

ConfigBlockOf(json) == <<FenceLine(CONFIG_BLOCK_LANG)>> \o json \o <<FenceLine(NoInfo)>>

SetupBlock == <<FenceLine(<<"python">>), TextLine("x = 1"), FenceLine(NoInfo)>>

\* headings, metadata and session-config blocks with JSON that loads, JSON
\* that is truncated and JSON nested too deep, a body, a body that is a
\* quoted heading, a code block
StructBlocks ==
    {<<H2Line(sp)>> : sp \in Speakers}
      \cup {MetaBlock(j) : j \in {JsonEmpty, JsonTruncated, JsonDeep}}
      \cup {ConfigBlockOf(j) : j \in {JsonEmpty, JsonOneLine, JsonTruncated, JsonDeep}}
      \cup {<<Quoted(TextLine("a"))>>, <<Quoted(H2Line(<<"u">>))>>, SetupBlock}

\* bound: blocks in a document
MaxStructBlocks == 4

InitStruct ==
    /\ docText \in {RenderDoc(bs) : bs \in SeqsUpTo(StructBlocks, MaxStructBlocks)}
    /\ document = EmptyDocument
    /\ appended = NoMessage
    /\ pcDoc = "idle"
    /\ action = NoAction
    /\ DispIdle /\ TagIdle /\ PatchIdle /\ InclIdle /\ MapIdle

SpecStruct == InitStruct /\ [][NextDoc]_vars

\* the level-2 headings of a text whose fences are all closed and whose
\* quotes end at an empty line: the lines that are headings, in order
HeadingLines(text) == {i \in 1..Len(text) : text[i][1].k = "h2" /\ text[i][1].d = 0}

HeadingAt(text, k) ==
    CHOOSE i \in HeadingLines(text) :
        Cardinality({j \in HeadingLines(text) : j <= i}) = k

InvalidJson(line) == <<line>> \in {JsonTruncated, JsonDeep}

\* the heading at line i is followed by a metadata block (blocks stand one
\* empty line apart)
MetaFollows(text, i) ==
    i + 2 <= Len(text) /\ text[i + 2] = FenceLine(JsonMetaInfo)

\* the metadata block after the heading at line i holds invalid JSON
InvalidMetaAt(text, i) ==
    MetaFollows(text, i) /\ InvalidJson(text[i + 3])

\* no block quote comes after the heading at line i and its metadata block
NoBodyAt(text, i) ==
    LET b == IF MetaFollows(text, i) THEN i + 6 ELSE i + 2
    IN  b > Len(text) \/ ~IsQuoteLine(text[b])

\* the text opens with a session-config block that holds invalid JSON
InvalidConfigFirst(text) ==
    /\ Len(text) >= 2
    /\ text[1] = FenceLine(CONFIG_BLOCK_LANG)
    /\ InvalidJson(text[2])

Faulty(text) ==
    \/ InvalidConfigFirst(text)
    \/ \E i \in HeadingLines(text) : InvalidMetaAt(text, i) \/ NoBodyAt(text, i)

\* what is claimed of the parse of a faulty text
FaultsRecorded ==
    /\ document.raised = "none"
    /\ document.errors >= 1
    /\ Len(document.conversation) = Cardinality(HeadingLines(docText))
    /\ \A k \in 1..Cardinality(HeadingLines(docText)) :
          /\ k <= Len(document.conversation)
          /\ NoBodyAt(docText, HeadingAt(docText, k))
          => document.conversation[k].content = <<>>

\* C17 (as claimed): parse does not raise for a document with invalid JSON
\* in the session-config block or in a msg-metadata block, or with a
\* level-2 heading without a block-quote body: it returns a document with
\* at least one error recorded, a message for every heading (with empty
\* content where the body is missing), the following messages included.
C17_ParseNeverRaises ==
    (pcDoc \in {"parsed", "raised"} /\ Faulty(docText)) => FaultsRecorded

\* the same for the texts whose invalid JSON json.loads rejects with
\* json.JSONDecodeError
HasDeepJson(text) == \E i \in 1..Len(text) : <<text[i]>> = JsonDeep

C17_DecodeErrorsRecorded ==
    (pcDoc \in {"parsed", "raised"} /\ Faulty(docText) /\ ~HasDeepJson(docText))
    => FaultsRecorded

ConfigLines(text) == {i \in 1..Len(text) : text[i] = FenceLine(CONFIG_BLOCK_LANG)}

MinOf(S) == CHOOSE i \in S : \A j \in S : i <= j

\* the configuration the first session-config block of the text stands for,
\* if it comes before every heading: its JSON value, and for set-up code the
\* fenced block right after it, if any.  No other block is looked at.
ConfigOfFirstBlock(text) ==
    LET cs == ConfigLines(text)
        hs == HeadingLines(text)
        c  == MinOf(cs)
        loaded == json_loads(<<text[c + 1]>>)
        follows == /\ c + 4 <= Len(text)
                   /\ text[c + 4][1].k = "fence"
                   /\ text[c + 4][1].d = 0
    IN  IF cs = {} THEN EmptyDocument.config
        ELSE IF hs # {} /\ MinOf(hs) < c THEN EmptyDocument.config
        ELSE IF ~loaded.ok THEN EmptyDocument.config
        ELSE [session_config |-> loaded.value,
              session_setup_code |->
                  IF follows THEN [present |-> TRUE, language |-> text[c + 4][1].v]
                  ELSE NoSetupCode]

CmdT   == "<t></t>"
CmdU   == "<u><p>1</p></u>"
CmdBad == "<t>1<p></p></t>"

TokensOfText(t) ==
    IF t = CmdT THEN <<Open("t"), Close("t")>>
    ELSE IF t = CmdU THEN <<Open("u"), Open("p"), Txt, Close("p"), Close("u")>>
    ELSE IF t = CmdBad THEN <<Open("t"), Txt, Open("p"), Close("p"), Close("t")>>
    ELSE <<Txt>>

\* the characters of a content text as tokens; a line ends with a newline
\* and a form feed is whitespace too
RECURSIVE TokensOfLine(_)
TokensOfLine(line) ==
    IF line = <<>> THEN <<>>
    ELSE (IF Head(line).k = "text" THEN TokensOfText(Head(line).v[1])
          ELSE IF Head(line).k = "blank" THEN <<>>
          ELSE <<Txt>>)
         \o <<Ws>> \o TokensOfLine(Tail(line))

RECURSIVE TokensOfContent(_)
TokensOfContent(content) ==
    IF content = <<>> THEN <<>>
    ELSE TokensOfLine(Head(content)) \o TokensOfContent(Tail(content))

\* a parameter value of the tag parser as a string of the dispatcher
ValueStr(value) == IF value = <<>> THEN "" ELSE "1"

\* chat_doc_parser.py 397-428, called with the positional arguments args:
\* the method takes messageIndex and codeBlockInMessageIndex, neither with
\* a default, so any other number of arguments is a TypeError at the call.
\* The code block of the pair is not used by the action.
get_message_and_code_block(doc, args) ==
    IF Len(args) # 2
    THEN [exc |-> "TypeError", found |-> FALSE, message_obj |-> NoMessage]
    ELSE IF ~(0 <= args[1] /\ args[1] < Len(doc.conversation))
    THEN [exc |-> "none", found |-> FALSE, message_obj |-> NoMessage]
    ELSE [exc |-> "none", found |-> TRUE,
          message_obj |-> doc.conversation[args[1] + 1]]

\* tool.py 138-145: the response envelope of one result
format_assistant_response(tool_name, result) ==
    [tool_name |-> tool_name, result |-> result]

\* roo_code.py 32-39: the loop over the commands; execute_tool_call is
\* called with its default return_traceback (False)
RECURSIVE RunToolCalls(_, _, _, _, _)
RunToolCalls(calls, n, registry, outcomes, done) ==
    IF n > Len(calls) THEN done
    ELSE
      LET tool_call == calls[n]
          parameters == [q \in DOMAIN tool_call.parameters |->
                            ValueStr(tool_call.parameters[q])]
          r == IF tool_call.tool_name \notin DOMAIN registry
               THEN MissingHandlerResult(tool_call.tool_name)
               ELSE HandlerResult(tool_call.tool_name, ProcessedParams(parameters),
                                  outcomes[n], FALSE)
      IN  IF r.kind = "raise"
          THEN [done EXCEPT !.exc = r.exc,
                            !.executed = IF r.ran THEN Append(@, tool_call.tool_name)
                                         ELSE @]
          ELSE RunToolCalls(calls, n + 1, registry, outcomes,
                            [done EXCEPT
                               !.executed = Append(@, tool_call.tool_name),
                               !.responses = Append(@, format_assistant_response(
                                                          r.tool_name, r.diag))])

\* the lines of the concatenated envelopes: an envelope ends without a
\* newline, so the next one starts on its last line
RECURSIVE EnvelopeLines(_, _)
EnvelopeLines(responses, n) ==
    IF responses = <<>> THEN <<>>
    ELSE IF n > Len(responses) THEN <<TextLine("</tool_output>")>>
    ELSE <<TextLine(IF n = 1 THEN "<tool_output>" ELSE "</tool_output><tool_output>"),
           TextLine(responses[n].result)>>
         \o EnvelopeLines(responses, n + 1)

UserMessage(responses) ==
    [speaker |-> <<"user">>, content |-> EnvelopeLines(responses, 1),
     metadata |-> [source |-> "user", type |-> "UserMessage"]]

\* bound: commands whose handler outcome is chosen (no content of the model
\* holds more)
MaxCalls == 2

\* roo_code.py 12-42 from line 25 on, for the document parsed at line 23
RooCodeRun(doc, registry, message_index, outcomes) ==
    LET got == get_message_and_code_block(doc, <<message_index>>)
        tool_calls_ == parse_tool_calls(TokensOfContent(got.message_obj.content))
        ran == RunToolCalls(tool_calls_.calls, 1, registry, outcomes,
                            [NoAction EXCEPT !.status = "returned"])
    IN  IF got.exc # "none"
        THEN [NoAction EXCEPT !.status = "raised", !.exc = got.exc]
        ELSE IF ~got.found      \* line 29: None has no attribute content
        THEN [NoAction EXCEPT !.status = "raised", !.exc = "AttributeError"]
        ELSE IF tool_calls_.status = "raise"
        THEN [NoAction EXCEPT !.status = "raised", !.exc = "ToolCallParsingError"]
        ELSE IF ran.exc # "none"
        THEN [ran EXCEPT !.status = "raised"]
        ELSE [ran EXCEPT !.written = 1]

do_roo_code_action(message_index, outcomes) ==
    /\ action.status = "idle"
    /\ LET doc == parse(docText)
           run == RooCodeRun(doc, REGISTERED_TOOLS, message_index, outcomes)
       IN  /\ document' = doc
           /\ action' = [run EXCEPT !.message_index = message_index]
           /\ IF run.written = 1
              THEN /\ appended' = UserMessage(run.responses)
                   /\ docText' = docText \o append_message_text(UserMessage(run.responses))
              ELSE UNCHANGED <<appended, docText>>
    /\ UNCHANGED <<pcDoc, REGISTERED_TOOLS, dispatch, handlerRuns>>

\* ---- the documents and registries of the model ----
CommandQuotes ==
    { <<Quoted(TextLine(CmdT))>>,
      <<Quoted(TextLine(CmdU))>>,
      <<Quoted(TextLine(CmdT)), Quoted(TextLine(CmdU))>>,
      <<Quoted(TextLine("a"))>>,
      <<Quoted(TextLine(CmdBad))>> }

ActionBlocks == {<<H2Line(<<"u">>)>>} \cup CommandQuotes

\* bound: blocks in a document handed to the action
MaxActionBlocks == 3

Registries == {<<>>, [t |-> "h1"], [t |-> "h1", u |-> "h2"]}

MessageIndexes == -1..2

InitAction ==
    /\ docText \in {RenderDoc(bs) : bs \in SeqsUpTo(ActionBlocks, MaxActionBlocks)}
    /\ document = EmptyDocument
    /\ appended = NoMessage
    /\ pcDoc = "idle"
    /\ action = NoAction
    /\ REGISTERED_TOOLS \in Registries
    /\ dispatch = [kind |-> "none"]
    /\ handlerRuns = 0
    /\ TagIdle /\ PatchIdle /\ InclIdle /\ MapIdle

NextAction ==
    /\ \E message_index \in MessageIndexes,
          outcomes \in [1..MaxCalls -> HandlerOutcomes] :
            do_roo_code_action(message_index, outcomes)
    /\ UNCHANGED <<tagVars, patchVars, inclVars, mapVars>>

SpecAction == InitAction /\ [][NextAction]_vars

\* the action has been called for a valid index of the document it parsed
ValidIndex ==
    /\ action.status # "idle"
    /\ 0 <= action.message_index
    /\ action.message_index < Len(document.conversation)

\* the commands in the content of that message
IndexedCommands ==
    parse_tool_calls(
        TokensOfContent(document.conversation[action.message_index + 1].content))

\* C11 (as claimed): called for a message at a valid index whose content
\* holds the commands c1..cn, the action returns having executed every ci
\* once in text order, and has appended one 'user' message with the n
\* response envelopes in that order.
C11_EveryCommandDispatchedOnce ==
    (ValidIndex /\ IndexedCommands.status = "ok" /\ IndexedCommands.calls # <<>>)
    => LET cmds == IndexedCommands.calls
       IN  /\ action.status = "returned"
           /\ action.executed = [n \in 1..Len(cmds) |-> cmds[n].tool_name]
           /\ Len(action.responses) = Len(cmds)
           /\ \A n \in 1..Len(cmds) :
                action.responses[n].tool_name = cmds[n].tool_name
           /\ action.written = 1
           /\ appended.speaker = <<"user">>
           /\ appended.content = EnvelopeLines(action.responses, 1)

(***************************************************************************)
(* INCLUSION RESOLUTION  (chat_doc_parser.py, _resolve_inclusions 103-235  *)
(* and parse 237-274)                                                      *)
(*                                                                         *)
(* The recursion of _resolve_inclusions, and of the sub-parser it starts   *)
(* for a message-index directive, is an explicit stack of frames: a frame  *)
(* holds the path being resolved, its output_content and whether it was    *)
(* entered by parse ("top"), for a whole-file directive ("file") or by a   *)
(* sub-parser ("msg").  One action is one iteration of the loop of line    *)
(* 124 in the innermost frame, or the return of that frame.                *)
(*                                                                         *)
(***************************************************************************)
IncLine(path)        == <<Piece(0, "inc", <<path>>)>>
IncLineAt(path, idx) == <<Piece(0, "inc", <<path, idx>>)>>

\* "> **ERROR**: ..." (lines 117, 144, 176, 189, 197)
ErrLine(diag) == <<Piece(1, "err", <<diag>>)>>

\* INCLUSION_REGEX (lines 66-69) with re.MULTILINE: a whole line, optionally
\* behind one '>' marker
IsDirective(line) ==
    /\ Len(line) = 1
    /\ line[1].k = "inc"
    /\ line[1].d <= 1

\* INCLUSION_REGEX.search(output_content): the first matching line, or 0
FirstDirective(output_content) ==
    LET hits == {n \in 1..Len(output_content) : IsDirective(output_content[n])}
    IN  IF hits = {} THEN 0 ELSE CHOOSE n \in hits : \A h \in hits : n <= h

\* int(msg_index_str), ok = FALSE for ValueError (lines 139-141)
IntOf(str) ==
    CASE str = "0"  -> [ok |-> TRUE, value |-> 0]
      [] str = "1"  -> [ok |-> TRUE, value |-> 1]
      [] str = "-1" -> [ok |-> TRUE, value |-> -1]
      [] str = "2"  -> [ok |-> TRUE, value |-> 2]
      [] str = "-2" -> [ok |-> TRUE, value |-> -2]
      [] str = "-3" -> [ok |-> TRUE, value |-> -3]
      [] OTHER      -> [ok |-> FALSE, value |-> 0]

\* lines 92-101
format_as_blockquote(text) ==
    LET lines == splitlines(text)
    IN  [n \in 1..Len(lines) |-> Quoted(lines[n])]

\* lines 206-218: the lines put in place of the directive
FinalReplacement(replacement_content, is_in_blockquote_directive) ==
    splitlines(IF is_in_blockquote_directive
               THEN format_as_blockquote(replacement_content)
               ELSE replacement_content)

\* line 232 (and 146-151): the directive line at index `at` is cut out and
\* the replacement put in; an empty replacement leaves an empty line
Splice(output_content, at, final_replacement) ==
    SubSeq(output_content, 1, at - 1)
      \o (IF final_replacement = <<>> THEN <<Blank>> ELSE final_replacement)
      \o SubSeq(output_content, at + 1, Len(output_content))

\* lines 172-189: what a message-index directive is replaced by, given the
\* conversation of the included document
SelectMessageFromStart(messages, msg_index) ==
    IF messages = <<>>
    THEN [replacement_content |-> <<ErrLine("no_messages")>>, nerr |-> 1]
    ELSE
      IF 0 <= msg_index /\ msg_index < Len(messages)
      THEN [replacement_content |-> messages[msg_index + 1].content, nerr |-> 0]
      ELSE [replacement_content |-> <<ErrLine("out_of_bounds")>>, nerr |-> 1]

SelectMessage(messages, msg_index) ==
    IF messages = <<>>
    THEN [replacement_content |-> <<ErrLine("no_messages")>>, nerr |-> 1]
    ELSE
      LET num_messages == Len(messages)
          effective_msg_index == IF msg_index < 0 THEN num_messages + msg_index
                                 ELSE msg_index
      IN  IF 0 <= effective_msg_index /\ effective_msg_index < num_messages
          THEN [replacement_content |-> messages[effective_msg_index + 1].content,
                nerr |-> 0]
          ELSE [replacement_content |-> <<ErrLine("out_of_bounds")>>, nerr |-> 1]

\* lines 276-395 in the sub-parser, then lines 170-189: markdown_body is
\* what the sub-parser's own inclusion resolution returned; an exception
\* that leaves the sub-parser is caught at lines 198-202
SubParserResult(markdown_body, msg_index) ==
    LET parsed_included_doc == parse(markdown_body)
        sel == SelectMessage(parsed_included_doc.conversation, msg_index)
    IN  IF parsed_included_doc.raised # "none"
        THEN [replacement_content |-> <<ErrLine("processing_error")>>, nerr |-> 1]
        ELSE [replacement_content |-> sel.replacement_content,
              nerr |-> parsed_included_doc.errors + sel.nerr]

FrameStripped(path, text, kind) ==
    [path |-> path,
     output_content |-> IF text # <<>> /\ text[Len(text)] = Blank
                        THEN SubSeq(text, 1, Len(text) - 1) ELSE text,
     kind |-> kind]

Frame(path, text, kind) == [path |-> path, output_content |-> text, kind |-> kind]

TopFrame == frames[Len(frames)]

\* the directive the innermost frame's search finds: its line index (0 if
\* none), and the groups of the match
MatchOf(frame) ==
    LET at == FirstDirective(frame.output_content)
        pc == IF at = 0 THEN Piece(0, "inc", <<"">>) ELSE frame.output_content[at][1]
        has_index == Len(pc.v) > 1
        idx == IF has_index THEN IntOf(pc.v[2]) ELSE [ok |-> TRUE, value |-> 0]
    IN  [at |-> at,
         target |-> pc.v[1],
         is_in_blockquote_directive |-> pc.d = 1,
         has_index |-> has_index,
         index_ok |-> idx.ok,
         msg_index |-> idx.value]

\* lines 204-232: the frames with the directive of the innermost frame
\* replaced by replacement_content
ReplaceDirective(fr, replacement_content) ==
    LET f == fr[Len(fr)]
        m == MatchOf(f)
    IN  [fr EXCEPT ![Len(fr)].output_content =
            Splice(f.output_content, m.at,
                   FinalReplacement(replacement_content, m.is_in_blockquote_directive))]

Paths == {"A", "B"}

\* the file the top-level parse is called on (domarkx.py 36-37)
TopPath == "A"

\* parse (237-274) entered with a fresh set; _resolve_inclusions entered for
\* the document: the check of line 114 fails, line 119 adds the path
BeginParse ==
    /\ pcI = "idle"
    /\ frames' = <<Frame(TopPath, fs[TopPath], "top")>>
    /\ processing_stack' = {TopPath}
    /\ pcI' = "resolving"
    /\ UNCHANGED <<fs, errors, cycleHits, resolved, document>>

\* lines 137-152: the index of the directive is not an integer
InvalidIndex ==
    /\ pcI = "resolving"
    /\ LET m == MatchOf(TopFrame)
       IN  /\ m.at # 0
           /\ m.has_index /\ ~m.index_ok
           /\ frames' = [frames EXCEPT ![Len(frames)].output_content =
                           Splice(@, m.at, <<ErrLine("invalid_index")>>)]
    /\ errors' = errors + 1
    /\ UNCHANGED <<fs, processing_stack, cycleHits, resolved, pcI, document>>

\* lines 160 and 195-197: the included file does not exist
FileNotFound ==
    /\ pcI = "resolving"
    /\ LET m == MatchOf(TopFrame)
       IN  /\ m.at # 0
           /\ m.index_ok
           /\ m.target \notin DOMAIN fs
           /\ frames' = ReplaceDirective(frames, <<ErrLine("not_found")>>)
    /\ errors' = errors + 1
    /\ UNCHANGED <<fs, processing_stack, cycleHits, resolved, pcI, document>>

\* lines 114-117 in the callee: the included path is in the in-flight set.
\* A whole-file directive (192-194) is replaced by the marker returned; for
\* a message-index directive (165-189) the marker is the body the
\* sub-parser parses.
CircularInclusion ==
    /\ pcI = "resolving"
    /\ LET m == MatchOf(TopFrame)
           sub == SubParserResult(<<ErrLine("circular")>>, m.msg_index)
       IN  /\ m.at # 0
           /\ m.index_ok
           /\ m.target \in DOMAIN fs
           /\ m.target \in processing_stack
           /\ IF m.has_index
              THEN /\ frames' = ReplaceDirective(frames, sub.replacement_content)
                   /\ errors' = errors + 1 + sub.nerr
              ELSE /\ frames' = ReplaceDirective(frames, <<ErrLine("circular")>>)
                   /\ errors' = errors + 1
    /\ cycleHits' = cycleHits + 1
    /\ UNCHANGED <<fs, processing_stack, resolved, pcI, document>>

\* lines 160-169 / 192-194 and 119-121 in the callee: the included file is
\* read and its resolution entered
Descend ==
    /\ pcI = "resolving"
    /\ LET m == MatchOf(TopFrame)
       IN  /\ m.at # 0
           /\ m.index_ok
           /\ m.target \in DOMAIN fs
           /\ m.target \notin processing_stack
           /\ frames' = Append(frames,
                               Frame(m.target, fs[m.target],
                                     IF m.has_index THEN "msg" ELSE "file"))
           /\ processing_stack' = processing_stack \cup {m.target}
    /\ UNCHANGED <<fs, errors, cycleHits, resolved, pcI, document>>

ReturnKeepsPath ==
    /\ pcI = "resolving"
    /\ Len(frames) >= 2
    /\ MatchOf(TopFrame).at = 0
    /\ LET callee == TopFrame
           callers == SubSeq(frames, 1, Len(frames) - 1)
           m == MatchOf(callers[Len(callers)])
           sub == SubParserResult(callee.output_content, m.msg_index)
       IN  IF callee.kind = "msg"
           THEN /\ frames' = ReplaceDirective(callers, sub.replacement_content)
                /\ errors' = errors + sub.nerr
           ELSE /\ frames' = ReplaceDirective(callers, callee.output_content)
                /\ errors' = errors
    /\ processing_stack' = processing_stack
    /\ UNCHANGED <<fs, cycleHits, resolved, pcI, document>>

\* lines 126-127 and 234-235 in the callee, then 170-189 / 192-194 and
\* 204-232 in the caller: no directive is left, the callee returns and the
\* caller replaces its directive
Return ==
    /\ pcI = "resolving"
    /\ Len(frames) >= 2
    /\ MatchOf(TopFrame).at = 0
    /\ LET callee == TopFrame
           callers == SubSeq(frames, 1, Len(frames) - 1)
           m == MatchOf(callers[Len(callers)])
           sub == SubParserResult(callee.output_content, m.msg_index)
       IN  IF callee.kind = "msg"
           THEN /\ frames' = ReplaceDirective(callers, sub.replacement_content)
                /\ errors' = errors + sub.nerr
           ELSE /\ frames' = ReplaceDirective(callers, callee.output_content)
                /\ errors' = errors
    /\ processing_stack' = processing_stack \ {TopFrame.path}
    /\ UNCHANGED <<fs, cycleHits, resolved, pcI, document>>

\* lines 126-127, 234-235 for the document itself, then 276-395
FinishParse ==
    /\ pcI = "resolving"
    /\ Len(frames) = 1
    /\ MatchOf(TopFrame).at = 0
    /\ resolved' = TopFrame.output_content
    /\ LET doc == parse(TopFrame.output_content)
       IN  /\ errors' = errors + doc.errors
           /\ document' = [doc EXCEPT !.errors = errors + doc.errors]
    /\ processing_stack' = processing_stack \ {TopFrame.path}
    /\ frames' = <<>>
    /\ pcI' = "done"
    /\ UNCHANGED <<fs, cycleHits>>

\* ---- the files of the model: blocks separated by empty lines ----
\* a directive behind a form feed: the pattern does not match the line, and
\* splitlines (line 210) makes the directive a line of its own
HiddenBlock == <<FormFeedJoin(Blank, IncLine("B"))>>

MessageBlock == <<H2Line(<<"u">>), Blank, Quoted(TextLine("hi"))>>

InclBlocks ==
    { <<TextLine("x")>>,
      <<IncLine("A")>>, <<IncLine("B")>>,
      <<IncLineAt("A", "0")>>, <<IncLineAt("B", "0")>>,
      <<Quoted(IncLine("A"))>>, <<Quoted(IncLine("B"))>>,
      <<IncLine("M")>>,
      <<IncLineAt("B", "x")>>,
      HiddenBlock,
      MessageBlock }

\* bound: blocks in the two files together
MaxInclBlocks == 3

\* a file with the hidden directive holds nothing else (every other line of
\* such a file would be copied again by each pass of the caller's loop)
HiddenAlone(blocks) ==
    (\E n \in 1..Len(blocks) : blocks[n] = HiddenBlock) => Len(blocks) = 1

FileSystems(max_blocks) ==
    {[p \in Paths |-> RenderDoc(IF p = "A" THEN bs[1] ELSE bs[2])] :
        bs \in {pair \in SeqsUpTo(InclBlocks, max_blocks)
                         \X SeqsUpTo(InclBlocks, max_blocks) :
                   /\ Len(pair[1]) + Len(pair[2]) <= max_blocks
                   /\ HiddenAlone(pair[1]) /\ HiddenAlone(pair[2])}}

\* the state before parse is called on TopPath, for a given set of files
InclStart(files) ==
    /\ fs \in files
    /\ frames = <<>>
    /\ processing_stack = {}
    /\ errors = 0
    /\ cycleHits = 0
    /\ visited = {}
    /\ revisits = FALSE
    /\ resolved = <<>>
    /\ pcI = "idle"
    /\ document = EmptyDocument
    /\ docText = <<>> /\ appended = NoMessage /\ pcDoc = "idle"
    /\ action = NoAction
    /\ DispIdle /\ TagIdle /\ PatchIdle /\ MapIdle

InitIncl == InclStart(FileSystems(MaxInclBlocks))

inclOthers == <<dispVars, tagVars, patchVars, docText, appended, pcDoc, action, mapVars>>

\* ---- termination, observed on finite runs ----
\* Every step of the resolution is determined by the frames (the in-flight
\* set is the set of their paths, the files do not change), and an empty
\* line is matched by no pattern and ends up in no diagnostic.  So if the
\* frames come back to what they were, up to runs of empty lines, the
\* resolution repeats for ever.
IsEmptyLine(line) == Len(line) = 1 /\ line[1].k = "blank"

RECURSIVE CollapseEmpty(_)
CollapseEmpty(lines) ==
    IF Len(lines) <= 1 THEN lines
    ELSE IF IsEmptyLine(lines[1]) /\ lines[2] = lines[1]
    THEN CollapseEmpty(Tail(lines))
    ELSE <<Head(lines)>> \o CollapseEmpty(Tail(lines))

Configuration ==
    [n \in 1..Len(frames) |->
        [frames[n] EXCEPT !.output_content = CollapseEmpty(@)]]

\* a step of the parse, recorded; a run is followed until a configuration
\* has occurred twice
Recorded(step) ==
    /\ ~revisits
    /\ step
    /\ visited' = visited \cup {Configuration'}
    /\ revisits' = (Configuration' \in visited)
    /\ UNCHANGED inclOthers

NextIncl ==
    \/ Recorded(BeginParse)
    \/ Recorded(InvalidIndex)
    \/ Recorded(FileNotFound)
    \/ Recorded(CircularInclusion)
    \/ Recorded(Descend)
    \/ Recorded(Return)
    \/ Recorded(FinishParse)

SpecIncl == InitIncl /\ [][NextIncl]_vars

\* C8 (as claimed): parse with inclusion resolution terminates for every
\* set of files: no run comes back to a configuration it has been in.
C8_ParseTerminates == ~revisits

\* number of circular-inclusion markers in a text, at any quote depth
RECURSIVE CountCircularMarkers(_)
CountCircularMarkers(text) ==
    IF text = <<>> THEN 0
    ELSE Cardinality({n \in 1..Len(Head(text)) :
                         Head(text)[n].k = "err" /\ Head(text)[n].v = <<"circular">>})
         + CountCircularMarkers(Tail(text))

\* C9 (as claimed): the resolved text holds exactly one circular-inclusion
\* marker for each time a directive closed a cycle, and no other.
C9_OneMarkerPerCyclicEdge ==
    pcI = "done" => CountCircularMarkers(resolved) = cycleHits

\* ---- message-index directives ----
\* the document is one directive, alone or behind a quote marker, or a
\* paragraph, with or without a message after it; the file B holds messages
\* and no directive
IndexStrings == {"0", "1", "-1", "2", "-2", "-3"}

IndexDirectives ==
    {IncLineAt("B", n) : n \in IndexStrings}
      \cup {IncLineAt("B", "x"), IncLineAt("M", "0"), IncLineAt("A", "0")}

TwoLineMessage == <<H2Line(<<"a">>), Blank, Quoted(TextLine("p")), Quoted(TextLine("q"))>>

IndexBlocks ==
    { MessageBlock, TwoLineMessage, <<H2Line(<<"s">>)>>, <<TextLine("x")>> }

\* bound: blocks in the included file
MaxIndexBlocks == 2

IndexFileSystems(max_blocks) ==
    {[p \in Paths |-> IF p = "A" THEN RenderDoc(<<<<head>>>> \o rest)
                      ELSE RenderDoc(blocks)] :
        head \in IndexDirectives \cup {Quoted(d) : d \in IndexDirectives}
                    \cup {TextLine("x")},
        rest \in {<<>>, <<MessageBlock>>},
        blocks \in SeqsUpTo(IndexBlocks, max_blocks)}

InitInclIndex == InclStart(IndexFileSystems(MaxIndexBlocks))

SpecInclIndex == InitInclIndex /\ [][NextIncl]_vars

IsErrorMarker(line) == Len(line) = 1 /\ line[1].k = "err"

\* the lines a message content is shown as in place of a directive: behind
\* the directive's quote marker if it had one; an empty line for no content
ShownContent(content, quoted) ==
    IF content = <<>> THEN <<Blank>>
    ELSE IF quoted THEN [n \in 1..Len(content) |-> Quoted(content[n])]
    ELSE content

\* the directive of the document names B with a numeric index
NumericIndexOfB ==
    /\ fs["A"][1][1].v[1] = "B"
    /\ IntOf(fs["A"][1][1].v[2]).ok

\* C16: a directive [include](f#N), f parsing to M messages, is replaced by
\* the content of message N when M > 0 and -M <= N < M (negative N counting
\* from the end); otherwise it is replaced by an inline error marker, an
\* error is added to the error list and the rest of the document is still
\* parsed.
C16_IndexSelectsMessage ==
    (pcI = "done" /\ NumericIndexOfB) =>
        LET directive == fs["A"][1][1]
            quoted == directive.d = 1
            N == IntOf(directive.v[2]).value
            included == parse(fs["B"])
            M == Len(included.conversation)
            rest == SubSeq(fs["A"], 2, Len(fs["A"]))
        IN  IF M > 0 /\ -M <= N /\ N < M
            THEN resolved =
                   ShownContent(included.conversation[(IF N < 0 THEN M + N ELSE N) + 1].content,
                                quoted) \o rest
            ELSE /\ Len(resolved) = 1 + Len(rest)
                 /\ IsErrorMarker(resolved[1])
                 /\ SubSeq(resolved, 2, Len(resolved)) = rest
                 /\ document.errors >= included.errors + 1
                 /\ document.conversation = parse(rest).conversation

\* reached: [include](B#-1) replaced by the content of the last of two
\* messages, and [include](B#2) replaced by an error marker
C16_Witness ==
    /\ pcI = "done"
    /\ fs["B"] = RenderDoc(<<MessageBlock, TwoLineMessage>>)
    /\ fs["A"][1] = IncLineAt("B", "-1")
    /\ resolved[1] = TextLine("p")
    /\ document.errors = 0
\* the directive of the document names a file that does not exist: an error
\* marker stands in its place, an error is recorded and the messages after
\* it are parsed
C17_MissingTargetRecorded ==
    (pcI = "done" /\ fs["A"][1][1].v[1] = "M") =>
        LET rest == SubSeq(fs["A"], 2, Len(fs["A"]))
        IN  /\ IsErrorMarker(resolved[1])
            /\ document.raised = "none"
            /\ document.errors >= 1
            /\ document.conversation = parse(rest).conversation

\* C20: for a text in which the directive pattern finds nothing, inclusion
\* resolution returns the text as it is: the document itself, and every
\* included file while it is resolved and when it is returned.
C20_NoDirectiveIdentity ==
    /\ \A n \in 1..Len(frames) :
          FirstDirective(fs[frames[n].path]) = 0
          => frames[n].output_content = fs[frames[n].path]
    /\ (pcI = "done" /\ FirstDirective(fs[TopPath]) = 0)
          => resolved = fs[TopPath]

\* reached: a document of a paragraph and a message, resolved
C20_Witness ==
    /\ pcI = "done"
    /\ fs[TopPath] = RenderDoc(<<<<TextLine("x")>>, MessageBlock>>)
    /\ resolved = fs[TopPath]
    /\ Len(document.conversation) = 1

\* ---- three files: a file included from two places ----
DiamondPaths == {"A", "B", "C"}

\* the blocks a file is made of: the document A includes B, C, a message of
\* C and a file that does not exist; B and C include each other or
\* themselves; C holds a paragraph or a message
DiamondBlocks(p) ==
    IF p = "A"
    THEN {<<IncLine("B")>>, <<IncLine("C")>>, <<IncLineAt("C", "0")>>, <<IncLine("M")>>}
    ELSE IF p = "B"
    THEN {<<TextLine("x")>>, <<IncLine("B")>>, <<IncLine("C")>>, <<IncLineAt("C", "x")>>}
    ELSE {<<TextLine("x")>>, <<IncLine("B")>>, <<IncLine("C")>>, MessageBlock}

\* bound: blocks in the three files together
MaxDiamondBlocks == 4

DiamondFileSystems(max_blocks) ==
    UNION { UNION { {[p \in DiamondPaths |->
                        RenderDoc(IF p = "A" THEN a ELSE IF p = "B" THEN b ELSE c)] :
                       c \in SeqsUpTo(DiamondBlocks("C"), max_blocks - Len(a) - Len(b))} :
                    b \in SeqsUpTo(DiamondBlocks("B"), max_blocks - Len(a)) } :
            a \in SeqsUpTo(DiamondBlocks("A"), max_blocks) }

InitInclDiamond == InclStart(DiamondFileSystems(MaxDiamondBlocks))

SpecInclDiamond == InitInclDiamond /\ [][NextIncl]_vars

\* the paths whose content is being resolved
FramePaths == {frames[n].path : n \in 1..Len(frames)}

\* file p holds a directive that names file q
Includes(p, q) ==
    \E n \in 1..Len(fs[p]) : \E k \in 1..Len(fs[p][n]) :
        fs[p][n][k].k = "inc" /\ fs[p][n][k].v[1] = q

IncludesVia(p, q) ==
    \/ Includes(p, q)
    \/ \E r \in DOMAIN fs : Includes(p, r) /\ Includes(r, q)
    \/ \E r1, r2 \in DOMAIN fs : Includes(p, r1) /\ Includes(r1, r2) /\ Includes(r2, q)

\* no file of the (at most three) files includes itself, directly or not
NoInclusionCycle == \A p \in DOMAIN fs : ~IncludesVia(p, p)

\* C27: a path is in the in-flight set exactly while its content is being
\* resolved, the set is empty again when the top-level parse returns, and
\* where no file includes itself, directly or through other files, no
\* inclusion is reported as a cycle, however often a file is included.
C27_InFlightSetRestored ==
    /\ processing_stack = FramePaths
    /\ pcI = "done" => processing_stack = {}
    /\ NoInclusionCycle =>
          /\ cycleHits = 0
          /\ pcI = "done" => /\ CountCircularMarkers(resolved) = 0
                             /\ FirstDirective(resolved) = 0

\* reached: A includes B and then C, B includes C, C is one paragraph; the
\* parse is done and the paragraph is there twice, with no diagnostic
C27_Witness ==
    /\ pcI = "done"
    /\ fs["A"] = RenderDoc(<< <<IncLine("B")>>, <<IncLine("C")>> >>)
    /\ fs["B"] = RenderDoc(<< <<IncLine("C")>> >>)
    /\ fs["C"] = RenderDoc(<< <<TextLine("x")>> >>)
    /\ errors = 0
    /\ Cardinality({n \in 1..Len(resolved) : resolved[n] = TextLine("x")}) = 2

(***************************************************************************)
(* PATH MAP  (src/domarkx/utils/agent_fs_map.py)                           *)
(*                                                                         *)
(* A path as it is written is a record: abs says whether it starts with    *)
(* '/', segs are its segments, names or "." or "..".  A normalized path    *)
(* is absolute and is the sequence of its names; <<>> is "/".  Paths       *)
(* written with two leading slashes, which normpath keeps, are not in the  *)
(* model.                                                                  *)
(***************************************************************************)
AbsPath(segs) == [abs |-> TRUE, segs |-> segs]
RelPath(segs) == [abs |-> FALSE, segs |-> segs]

\* os.getcwd(), which os.path.abspath puts before a relative path
Cwd == <<"w">>

\* os.path.normpath on the segments of an absolute path
RECURSIVE Collapse(_, _)
Collapse(done, segs) ==
    IF segs = <<>> THEN done
    ELSE IF Head(segs) = "." THEN Collapse(done, Tail(segs))
    ELSE IF Head(segs) = ".."
    THEN Collapse(IF done = <<>> THEN <<>> ELSE SubSeq(done, 1, Len(done) - 1),
                  Tail(segs))
    ELSE Collapse(Append(done, Head(segs)), Tail(segs))

normalize_path_verbatim(path) ==
    (IF path.abs THEN <<>> ELSE Cwd) \o path.segs

\* lines 15-36 (on POSIX); the empty string is not given to it by the
\* callers below
normalize_path(path) ==
    Collapse(<<>>, (IF path.abs THEN <<>> ELSE Cwd) \o path.segs)

\* len() of the string of a normalized path
NameLen(name) == IF name = "tmp" THEN 3 ELSE 1

RECURSIVE StrLen(_)
StrLen(comps) ==
    IF comps = <<>> THEN 0 ELSE 1 + NameLen(Head(comps)) + StrLen(Tail(comps))

PathLen(comps) == IF comps = <<>> THEN 1 ELSE StrLen(comps)

\* lines 60-69: the default mapping of /tmp, added after the entries of
\* AGENT_FS_MAP unless one of them is written for /tmp; an unset
\* AGENT_FS_MAP_TMP_DIR is the empty string
NoTmpDir == [abs |-> FALSE, segs |-> <<>>]

WithTmpDir(entries, tmp_dir) ==
    IF tmp_dir # NoTmpDir
       /\ \A n \in 1..Len(entries) : entries[n].virtual # AbsPath(<<"tmp">>)
    THEN Append(entries, [virtual |-> AbsPath(<<"tmp">>), real |-> tmp_dir])
    ELSE entries

\* lines 77-107: the two dictionaries; a later entry with the same root
\* overwrites the value and keeps the key where it was first inserted
RECURSIVE KeysInOrder(_, _, _)
KeysInOrder(entries, side, keys) ==
    IF entries = <<>> THEN keys
    ELSE LET k == normalize_path(IF side = "virtual" THEN Head(entries).virtual
                                 ELSE Head(entries).real)
         IN  KeysInOrder(Tail(entries), side,
                         IF k \in Range(keys) THEN keys ELSE Append(keys, k))

LastEntryWith(entries, side, key) ==
    LET hits == {n \in 1..Len(entries) :
                    normalize_path(IF side = "virtual" THEN entries[n].virtual
                                   ELSE entries[n].real) = key}
    IN  entries[CHOOSE n \in hits : \A h \in hits : h <= n]

virtual_to_real_map(entries, v_root) ==
    normalize_path(LastEntryWith(entries, "virtual", v_root).real)

real_to_virtual_map(entries, r_root) ==
    normalize_path(LastEntryWith(entries, "real", r_root).virtual)

\* lines 110-111: sorted(keys, key=len, reverse=True): by falling length of
\* the string, keys of one length in the order of the dictionary
RECURSIVE InsertByLen(_, _)
InsertByLen(sorted, key) ==
    IF sorted = <<>> THEN <<key>>
    ELSE IF PathLen(Head(sorted)) >= PathLen(key)
    THEN <<Head(sorted)>> \o InsertByLen(Tail(sorted), key)
    ELSE <<key>> \o sorted

RECURSIVE SortByLen(_, _)
SortByLen(keys, sorted) ==
    IF keys = <<>> THEN sorted
    ELSE SortByLen(Tail(keys), InsertByLen(sorted, Head(keys)))

virtual_roots_sorted(entries) == SortByLen(KeysInOrder(entries, "virtual", <<>>), <<>>)
real_roots_sorted(entries)    == SortByLen(KeysInOrder(entries, "real", <<>>), <<>>)

\* str.startswith(root + os.sep) on normalized paths: the root and one more
\* '/' come first.  For the root "/" the prefix asked for is "//", which no
\* normalized path of the model starts with.
StartsWithRootSep(path, root) ==
    /\ root # <<>>
    /\ Len(path) > Len(root)
    /\ SubSeq(path, 1, Len(root)) = root

NoPath == [ok |-> FALSE, path |-> <<>>]
SomePath(comps) == [ok |-> TRUE, path |-> comps]

\* lines 133-158: the loop over the virtual roots
RECURSIVE ResolveLoop(_, _, _, _)
ResolveLoop(entries, roots, virtual_path, normalized_virtual_path) ==
    IF roots = <<>> THEN NoPath
    ELSE
      LET v_root == Head(roots)
          nvp == IF ~virtual_path.abs
                 THEN Collapse(<<>>, v_root \o virtual_path.segs)
                 ELSE normalized_virtual_path
      IN  IF nvp = v_root
          THEN SomePath(virtual_to_real_map(entries, v_root))
          ELSE IF StartsWithRootSep(nvp, v_root)
          THEN SomePath(virtual_to_real_map(entries, v_root)
                          \o SubSeq(nvp, Len(v_root) + 1, Len(nvp)))
          ELSE ResolveLoop(entries, Tail(roots), virtual_path, nvp)

\* lines 118-158
resolve_virtual_path(entries, virtual_path) ==
    IF ~virtual_path.abs /\ virtual_path.segs = <<>> THEN NoPath
    ELSE ResolveLoop(entries, virtual_roots_sorted(entries), virtual_path,
                     normalize_path(virtual_path))

\* lines 176-192: the loop over the real roots
RECURSIVE VirtualLoop(_, _, _)
VirtualLoop(entries, roots, normalized_real_path) ==
    IF roots = <<>> THEN NoPath
    ELSE
      LET r_root == Head(roots)
      IN  IF normalized_real_path = r_root
          THEN SomePath(real_to_virtual_map(entries, r_root))
          ELSE IF StartsWithRootSep(normalized_real_path, r_root)
          THEN SomePath(real_to_virtual_map(entries, r_root)
                          \o SubSeq(normalized_real_path, Len(r_root) + 1,
                                    Len(normalized_real_path)))
          ELSE VirtualLoop(entries, Tail(roots), normalized_real_path)

\* lines 161-192
get_virtual_path(entries, real_path) ==
    IF ~real_path.abs /\ real_path.segs = <<>> THEN NoPath
    ELSE VirtualLoop(entries, real_roots_sorted(entries), normalize_path(real_path))

\* ---- the calls ----
ResolveVirtual(virtual_path) ==
    /\ pathCall.op = "none"
    /\ pathCall' = [op |-> "resolve", arg |-> virtual_path,
                    result |-> resolve_virtual_path(fs_map, virtual_path)]
    /\ UNCHANGED <<fs_map, realFiles>>

\* get_virtual_path called on what resolve_virtual_path returned: a path,
\* or None, for which lines 171-172 return None
GetVirtual ==
    /\ pathCall.op = "resolve"
    /\ pathCall' = [op |-> "round_trip", arg |-> pathCall.arg,
                    result |-> pathCall.result,
                    back |-> IF pathCall.result.ok
                             THEN get_virtual_path(fs_map, AbsPath(pathCall.result.path))
                             ELSE NoPath]
    /\ UNCHANGED <<fs_map, realFiles>>

\* ---- the mapping sets and paths of the model ----
MapEntry(v, r) == [virtual |-> AbsPath(v), real |-> AbsPath(r)]

MapEntries ==
    { MapEntry(<<"a">>, <<"r">>), MapEntry(<<"a", "b">>, <<"s">>),
      MapEntry(<<"b">>, <<"r">>), MapEntry(<<"b">>, <<"r", "x">>),
      MapEntry(<<>>, <<"s">>), MapEntry(<<"a">>, <<>>) }

\* bound: entries in AGENT_FS_MAP
MaxMapEntries == 2

\* bound: segments of the path given to resolve_virtual_path
MaxPathSegs == 3

PathSegs == {"a", "b", ".."}

\* paths with '.' segments and with a name that is no root
DottedPaths ==
    { AbsPath(<<"a", ".", "b">>), AbsPath(<<".", "a">>), AbsPath(<<"a", ".", "..", "b">>),
      RelPath(<<".">>), RelPath(<<".", "x">>), RelPath(<<".", "..", "b">>),
      AbsPath(<<"x">>), AbsPath(<<"a", "x">>), AbsPath(<<"a", "b", "x">>),
      AbsPath(<<"b", "x", "a">>), AbsPath(<<"a", "x", "..", "..", "x">>),
      RelPath(<<"x">>), RelPath(<<"..", "b", "x">>), RelPath(<<"..", "x">>) }

InputPaths ==
    {AbsPath(segs) : segs \in SeqsUpTo(PathSegs, MaxPathSegs)}
      \cup {RelPath(segs) : segs \in SeqsUpTo(PathSegs, MaxPathSegs)}
      \cup DottedPaths

InitMap ==
    /\ fs_map \in {WithTmpDir(entries, tmp_dir) :
                      entries \in SeqsUpTo(MapEntries, MaxMapEntries),
                      tmp_dir \in {NoTmpDir, AbsPath(<<"s">>)}}
    /\ pathCall = NoPathCall
    /\ realFiles = <<>>
    /\ DispIdle /\ TagIdle /\ PatchIdle /\ DocIdle /\ InclIdle

NextMap ==
    \/ /\ \E virtual_path \in InputPaths : ResolveVirtual(virtual_path)
       /\ UNCHANGED <<dispVars, tagVars, patchVars, docVars, inclVars>>
    \/ /\ GetVirtual
       /\ UNCHANGED <<dispVars, tagVars, patchVars, docVars, inclVars>>

SpecMap == InitMap /\ [][NextMap]_vars

\* root is a whole-component prefix of path (normalized paths)
IsComponentPrefix(root, path) ==
    /\ Len(root) <= Len(path)
    /\ SubSeq(path, 1, Len(root)) = root

ConfiguredVirtualRoots == Range(virtual_roots_sorted(fs_map))

\* the configured virtual roots that are whole-component prefixes of path
MatchingRoots(path) == {r \in ConfiguredVirtualRoots : IsComponentPrefix(r, path)}

LongestOf(roots) == CHOOSE r \in roots : \A q \in roots : Len(q) <= Len(r)

\* what the claim says resolve_virtual_path returns for an absolute path
ByLongestRoot(virtual_path) ==
    LET path == normalize_path(virtual_path)
        root == LongestOf(MatchingRoots(path))
    IN  IF MatchingRoots(path) = {} THEN NoPath
        ELSE SomePath(virtual_to_real_map(fs_map, root)
                        \o SubSeq(path, Len(root) + 1, Len(path)))

\* C22 (as claimed): for an absolute virtual path resolve_virtual_path
\* returns the real path built from the longest configured virtual root
\* that is a whole-component prefix of the normalized path, and no result
\* when no configured root is such a prefix.
C22_LongestRootPrefix ==
    (pathCall.op = "resolve" /\ pathCall.arg.abs)
    => pathCall.result = ByLongestRoot(pathCall.arg)

\* the same for the mapping sets in which "/" is no virtual root
C22_LongestRootPrefixBelowRoot ==
    (pathCall.op = "resolve" /\ pathCall.arg.abs /\ <<>> \notin ConfiguredVirtualRoots)
    => pathCall.result = ByLongestRoot(pathCall.arg)

ConfiguredRealRoots ==
    {virtual_to_real_map(fs_map, v) : v \in ConfiguredVirtualRoots}

IsNormalized(path) == \A n \in 1..Len(path) : path[n] \notin {".", ".."}

\* C26: whatever the mapping set and the path given, absolute or relative,
\* with or without '.' and '..' segments, resolve_virtual_path returns no
\* result or a normalized path that is a configured real root or lies
\* under one.
C26_ResultUnderRealRoot ==
    (pathCall.op \in {"resolve", "round_trip"} /\ pathCall.result.ok)
    => /\ IsNormalized(pathCall.result.path)
       /\ \E r \in ConfiguredRealRoots : IsComponentPrefix(r, pathCall.result.path)

\* reached: a relative path that climbs out of one virtual root and into
\* another is resolved under the real root of the second
C26_Witness ==
    /\ pathCall.op = "resolve"
    /\ pathCall.arg = RelPath(<<"..", "b", "x">>)
    /\ pathCall.result.ok
    /\ pathCall.result.path = <<"r", "x">>
    /\ ConfiguredRealRoots = {<<"r">>, <<"s">>}

\* C30 (as claimed): for every mapping set and every absolute virtual path
\* under a configured virtual root, get_virtual_path applied to the result
\* of resolve_virtual_path gives the normalized path back.
C30_RoundTrip ==
    (/\ pathCall.op = "round_trip"
     /\ pathCall.arg.abs
     /\ MatchingRoots(normalize_path(pathCall.arg)) # {})
    => pathCall.back = SomePath(normalize_path(pathCall.arg))

\* no root of the mapping set is "/", and no real root of an entry is equal
\* to or under the real root of another entry
SeparateRoots ==
    /\ \A n \in 1..Len(fs_map) :
          /\ normalize_path(fs_map[n].virtual) # <<>>
          /\ normalize_path(fs_map[n].real) # <<>>
    /\ \A n, m \in 1..Len(fs_map) :
          n # m => ~IsComponentPrefix(normalize_path(fs_map[n].real),
                                      normalize_path(fs_map[m].real))

\* the round trip for the mapping sets with separate roots
C30_RoundTripSeparateRoots ==
    (/\ pathCall.op = "round_trip"
     /\ pathCall.arg.abs
     /\ MatchingRoots(normalize_path(pathCall.arg)) # {}
     /\ SeparateRoots)
    => pathCall.back = SomePath(normalize_path(pathCall.arg))

(***************************************************************************)
(* WRITE COMMAND  (tools/write_to_file.py, reached from message text       *)
(* through parser.py and tool.py)                                          *)
(*                                                                         *)
(* The message is one write_to_file command.  A parameter value is one     *)
(* text token, with whitespace around it or not: the string of the value   *)
(* is the string the token carries, a newline inside the content being a   *)
(* character of that string.  An argument of the handler is a pair of the  *)
(* Python type and the value, as ProcessedParams makes it.                 *)
(***************************************************************************)
Text(str) == [tp |-> "text", v |-> str]

\* the string of a parsed parameter value
StrOf(value) == IF value = <<>> THEN "" ELSE value[1].v

\* the paths written in the commands of the model
PathOf(str) ==
    CASE str = "/v/f" -> AbsPath(<<"v", "f">>)
      [] str = "/o/f" -> AbsPath(<<"o", "f">>)
      [] str = "f"    -> RelPath(<<"f">>)
      [] OTHER        -> RelPath(<<>>)

\* str.count("\n"), str.endswith("\n") and str.strip() on the contents of
\* the model
CountNewlines(content) ==
    CASE content = "a\nb" -> 1
      [] content = "a\n"  -> 1
      [] content = "\n"   -> 1
      [] OTHER            -> 0

EndsWithNewline(content) == content \in {"a\n", "\n"}

IsBlank(content) == content \in {"", "\n"}

\* the lines of a content
LinesOfContent(content) ==
    CASE content = "a"    -> <<"a">>
      [] content = "a\nb" -> <<"a", "b">>
      [] content = "a\n"  -> <<"a">>
      [] content = "\n"   -> <<"">>
      [] OTHER            -> <<>>

Numeral(n) == CASE n = 0 -> "0" [] n = 1 -> "1" [] n = 2 -> "2" [] OTHER -> "3"

\* isinstance(x, int): an int, or a bool, which is an int in Python
IsInt(arg) == arg[1] \in {"int", "bool"}

IntValue(arg) ==
    IF arg[1] = "bool" THEN (IF arg[2] = "True" THEN 1 ELSE 0) ELSE arg[2]

\* write_to_file.py 41-47
ActualLineCount(content) ==
    IF content # "" /\ ~EndsWithNewline(content) THEN CountNewlines(content) + 1
    ELSE IF content = "" THEN 0
    ELSE CountNewlines(content) + (IF IsBlank(content) THEN 0 ELSE 1)

WriteParams == {"path", "content", "line_count"}

\* write_to_file.py 10-84, called as tool_func(**processed_params): what
\* the call does (a HandlerOutcome) and the files after it
write_to_file_tool(args, entries, files) ==
    IF DOMAIN args # WriteParams
    THEN [outcome |-> "TypeError", files |-> files]   \* the call cannot be bound
    ELSE IF args["path"][1] # "str" \/ args["content"][1] # "str"
            \/ ~IsInt(args["line_count"])
    THEN [outcome |-> "TypeError", files |-> files]   \* lines 34-39
    ELSE IF ActualLineCount(args["content"][2]) # IntValue(args["line_count"])
    THEN [outcome |-> "DomainError", files |-> files] \* lines 49-55, ValueError
    ELSE
      LET rpath == resolve_virtual_path(entries, PathOf(args["path"][2]))
      IN  IF ~rpath.ok
          THEN [outcome |-> "OtherError", files |-> files] \* dirname(None), 81-84
          ELSE [outcome |-> "value",
                files |-> [f \in (DOMAIN files) \cup {rpath.path} |->
                              IF f = rpath.path THEN args["content"][2]
                              ELSE files[f]]]

\* the first command of the message is dispatched (action/roo_code.py: the
\* commands parse_tool_calls returned go to execute_tool_call one by one)
ExecuteWrite ==
    /\ tool_calls.status = "ok"
    /\ Len(tool_calls.calls) >= 1
    /\ dispatch.kind = "none"
    /\ LET call == tool_calls.calls[1]
           parameters == [n \in DOMAIN call.parameters |-> StrOf(call.parameters[n])]
           done == write_to_file_tool(ProcessedParams(parameters), fs_map, realFiles)
       IN  /\ execute_tool_call(call.tool_name, parameters, FALSE, done.outcome)
           /\ realFiles' = IF call.tool_name \in DOMAIN REGISTERED_TOOLS
                           THEN done.files ELSE realFiles
    /\ UNCHANGED <<message, tool_calls, fs_map, pathCall>>

\* ---- the commands of the model ----
WritePaths    == {"/v/f", "/o/f", "f"}
WriteContents == {"a", "a\nb", ""}
WriteCounts   == {"0", "1", "2", "true"}

Param(name, str, trailing) ==
    <<Open(name)>> \o (IF str = "" THEN <<>> ELSE <<Text(str)>>)
        \o (IF trailing THEN <<Ws>> ELSE <<>>) \o <<Close(name)>>

\* "<tool><path>..</path><content>..</content><line_count>..</line_count></tool>",
\* the content followed by a newline or not, the line_count there or not
WriteCommand(tool, path, content, trailing, count, with_count) ==
    <<Open(tool)>> \o Param("path", path, FALSE)
        \o Param("content", content, trailing)
        \o (IF with_count THEN Param("line_count", count, FALSE) ELSE <<>>)
        \o <<Close(tool)>>

WriteMessages ==
    {WriteCommand(tool, path, content, trailing, count, with_count) :
        tool \in {"write_to_file", "t"}, path \in WritePaths,
        content \in WriteContents, trailing \in BOOLEAN,
        count \in WriteCounts, with_count \in BOOLEAN}

InitWrite ==
    /\ message \in WriteMessages
    /\ tool_calls = [status |-> "none", calls |-> <<>>]
    /\ REGISTERED_TOOLS = [n \in {"write_to_file"} |-> "write_to_file_tool"]
    /\ dispatch = [kind |-> "none"]
    /\ handlerRuns = 0
    /\ fs_map = <<MapEntry(<<"v">>, <<"r">>)>>
    /\ pathCall = NoPathCall
    /\ realFiles = <<>>
    /\ PatchIdle /\ DocIdle /\ InclIdle

NextWrite ==
    \/ /\ ParseToolCalls
       /\ UNCHANGED <<dispVars, patchVars, docVars, inclVars, mapVars>>
    \/ /\ ExecuteWrite
       /\ UNCHANGED <<patchVars, docVars, inclVars>>

SpecWrite == InitWrite /\ [][NextWrite]_vars

\* the message is a write_to_file command with a path under the virtual
\* root and the number of lines of its content as line_count, and it has
\* been dispatched
CountedWriteDispatched ==
    /\ dispatch.kind # "none"
    /\ LET call == tool_calls.calls[1]
       IN  /\ call.tool_name = "write_to_file"
           /\ DOMAIN call.parameters = WriteParams
           /\ resolve_virtual_path(fs_map, PathOf(StrOf(call.parameters["path"]))).ok
           /\ StrOf(call.parameters["line_count"])
                = Numeral(Len(LinesOfContent(StrOf(call.parameters["content"]))))

\* C28 (as claimed): a write_to_file command parsed from message text, with
\* a path under a configured virtual root, content c and the number of
\* lines of c as line_count, dispatched through execute_tool_call, writes c
\* to the file and returns a success result.
C28_CountedWriteSucceeds ==
    CountedWriteDispatched
    => /\ dispatch.kind = "return"
       /\ dispatch.ok
       /\ LET call == tool_calls.calls[1]
              rpath == resolve_virtual_path(fs_map, PathOf(StrOf(call.parameters["path"])))
          IN  /\ rpath.path \in DOMAIN realFiles
              /\ realFiles[rpath.path] = StrOf(call.parameters["content"])

\* C28, what the code does: the line_count of a parsed command reaches the
\* handler as a string, the handler raises TypeError, and the call returns
\* the argument-shape failure without writing a file.
C28_CountedWriteRejected ==
    CountedWriteDispatched
    => /\ dispatch.kind = "return"
       /\ ~dispatch.ok
       /\ dispatch.diag = "bad_arguments"
       /\ realFiles = <<>>

====
